---- MODULE Spec2Model ----
(***************************************************************************)
(* Model of the voxel streaming handoff (producer / shared double buffer / *)
(* writer worker), of the writers' frame-count setters and of the          *)
(* acquisition's configuration verification.                               *)
(*                                                                         *)
(*   Spec        the producer of Acquisition._check_compression_ratio      *)
(*               running against a writer worker (_run) and its backend    *)
(*   FairSpec    Spec with the scheduler's fairness (both run as separate  *)
(*               OS processes / threads that are never starved)            *)
(*   SetterSpec  the frame-count setters applied to bounded inputs         *)
(*   VerifySpec  Acquisition._verify_acquisition applied to bounded        *)
(*               configurations                                            *)
(***************************************************************************)
EXTENDS Integers, Sequences, FiniteSets, TLC

\* ------------------------------------------------------------------ bounds

\* Largest number of chunks a modelled stream is cut into.
MaxChunks == 3

\* Largest frame count handed to a frame-count setter in SetterSpec.
MaxFrameCount == 200

\* ------------------------------------------------------- program constants

\* zarr.py:18 (CHUNK_COUNT_PX) and imaris.py:17 (CHUNK_SIZE): depth of a chunk.
CHUNK_COUNT_PX == 64

\* zarr.py:19
DIVISIBLE_FRAME_COUNT_PX == 64

\* ------------------------------------------------------------- pure helpers

\* the quotient truncated: floor(a / b)
CeilDivFloor(a, b) == a \div b

\* math.ceil(a / b) for non-negative a and positive b
CeilDiv(a, b) == IF a % b = 0 THEN a \div b ELSE (a \div b) + 1

\* The two writer classes of the repository.
WriterKinds == {"zarr", "imaris"}

\* the setter rounding down to a multiple of 64 instead of up
ZarrFrameCountTruncating(fc) ==
    IF fc % DIVISIBLE_FRAME_COUNT_PX # 0
    THEN (fc \div DIVISIBLE_FRAME_COUNT_PX) * DIVISIBLE_FRAME_COUNT_PX
    ELSE fc

\* ZarrWriter.frame_count_px setter: pads up to a multiple of 64.
ZarrFrameCountSetter(fc) ==
    IF fc % DIVISIBLE_FRAME_COUNT_PX # 0
    THEN CeilDiv(fc, DIVISIBLE_FRAME_COUNT_PX) * DIVISIBLE_FRAME_COUNT_PX
    ELSE fc

\* Writer.frame_count setter (imaris): stores the value as given.
ImarisFrameCountSetter(fc) == fc

FrameCountSetter(wk, fc) ==
    IF wk = "zarr" THEN ZarrFrameCountSetter(fc) ELSE ImarisFrameCountSetter(fc)

\* chunk_total with the division truncated instead of rounded up
ChunkTotalFloor(stored) == CeilDivFloor(stored, CHUNK_COUNT_PX)

\* chunk_total / chunk_count computed at the top of _run
ChunkTotal(stored) == CeilDiv(stored, CHUNK_COUNT_PX)

\* a region one frame short of a chunk
ShmDepthShort == CHUNK_COUNT_PX - 1

\* Depth of the shared region the worker attaches to: shm_shape[0]
ShmDepth == CHUNK_COUNT_PX

\* Depth the container is declared with: array_size_px of "z" (zarr),
\* image_size.z (imaris): the stored frame count in both.
DeclaredDepth(stored) == stored

\* The names of the two shared-memory regions of the double buffer.
Regions == {"A", "B"}

Other(r) == IF r = "A" THEN "B" ELSE "A"

\* Frame slots of a region, numbered as the producer's frame_index numbers
\* them.
Slots == 0 .. (CHUNK_COUNT_PX - 1)

\* A region's contents are kept run-length encoded: a set of runs
\* [at, n, first], each standing for the n consecutive slots from slot
\* `at` on, which hold the frames first, first + 1, ... (or, when
\* first = 0, which no frame has been stored in). Adjacent runs that
\* continue one another are always merged, so equal contents have equal
\* encodings.
RunAt(runs, slot) == CHOOSE r \in runs : r.at <= slot /\ slot < r.at + r.n

\* write_buf[slot], read back
FrameAt(runs, slot) ==
    LET r == RunAt(runs, slot)
    IN  IF r.first = 0 THEN 0 ELSE r.first + (slot - r.at)

\* Whether a slot holding b continues a run whose last slot holds a.
Follows(a, b) == (a = 0 /\ b = 0) \/ (a > 0 /\ b = a + 1)

\* write_buf[slot] = frame
StoreFrame(runs, slot, frame) ==
    LET r == RunAt(runs, slot)
        before == IF slot > r.at
                  THEN {[at |-> r.at, n |-> slot - r.at, first |-> r.first]}
                  ELSE {}
        after == IF slot + 1 < r.at + r.n
                 THEN {[at |-> slot + 1, n |-> r.at + r.n - slot - 1,
                        first |-> FrameAt({r}, slot + 1)]}
                 ELSE {}
        others == (runs \ {r}) \cup before \cup after
        lefts == { l \in others :
                     /\ l.at + l.n = slot
                     /\ Follows(FrameAt({l}, slot - 1), frame) }
        rights == { x \in others :
                      x.at = slot + 1 /\ Follows(frame, x.first) }
        merged == [at |-> IF lefts = {} THEN slot
                          ELSE (CHOOSE l \in lefts : TRUE).at,
                   n |-> 1 + (IF lefts = {} THEN 0
                              ELSE (CHOOSE l \in lefts : TRUE).n)
                           + (IF rights = {} THEN 0
                              ELSE (CHOOSE x \in rights : TRUE).n),
                   first |-> IF lefts = {} THEN frame
                             ELSE (CHOOSE l \in lefts : TRUE).first]
    IN  (others \ (lefts \cup rights)) \cup {merged}

\* A freshly allocated region: every slot empty.
EmptyRegion == {[at |-> 0, n |-> CHUNK_COUNT_PX, first |-> 0]}

\* Frame counts the streaming model is run with: whole chunks and chunks
\* short by one frame or holding a single frame. CHUNK_COUNT_PX is the
\* calibration run's own frame count.
FrameCounts ==
    { c * CHUNK_COUNT_PX + d : c \in 0 .. (MaxChunks - 1),
                               d \in {1, CHUNK_COUNT_PX - 1, CHUNK_COUNT_PX} }

\* ------------------------------------------------------------------- state

VARIABLES
    kind,           \* which writer class is in use
    requested,      \* frame count the producer assigns to the writer
    frame_count,    \* writer._frame_count(_px) as stored by the setter
    mem,            \* contents of the two shared regions (run-length encoded)
    write_buf,      \* region currently in the write role (read role: Other)
    shm_name,       \* writer.shm_name: "" until published
    done_reading,   \* writer.done_reading event
    pcP,            \* position of the producer
    frame_index,    \* producer's loop variable
    chunkP,         \* number of regions the producer has handed off
    grabbed,        \* number of frames grabbed from the camera
    published,      \* history: regions published, with their contents
    pcW,            \* position of the writer worker
    chunk_num,      \* worker's loop variable
    attached,       \* region the worker is attached to, "" if none
    backendLog,     \* history: calls received by the backend
    progress,       \* chunks the backend / worker reports as complete
    finalized,      \* converter.Finish has been called
    faultChunk,     \* chunk index whose encode call raised, else -1
    fcIn, fcKind, fcOut, fcDone,       \* SetterSpec
    stage_axes, tiles, channels, cameras, writers, transfers,
    verifyResult,                      \* VerifySpec
    runPc,           \* position of run()
    acquisition_name,\* acquisition.acquisition_name, "None" until assigned
    opName,          \* the acquisition_name attribute of every operation
    dirs,   \* directories present on the local and external disks
    platform_system, \* platform.system()
    disk_cameras,    \* per camera: frame size, its writers' and transfers' drives
    tile_steps,      \* tile["steps"] of every planned tile
    free,            \* free space reported for each drive
    diskMode,        \* which disk-space check has run
    diskResult,      \* how it ended
    compared,   \* history: the comparisons against free space it made
    device_named_transfers, \* a device called "transfers" under config operations
    compression,     \* writer._compression: the codec object stored
    compression_ratio, \* what _check_compression_ratio returned, if it has
    trigger_mode,    \* camera._trigger["mode"]
    initial_trigger, \* mode of the dictionary the local initial_trigger names
    filename,        \* writer._filename
    geometry,        \* writer row and column count
    camera_state,    \* idle, prepared, started or stopped
    writer_acquisition_name, \* writer._acquisition_name; << >> is Path()
    disk_files,      \* files under writer.path
    writer_class,    \* "zarr" (ZarrWriter) or "imaris" (Writer)
    fields,          \* the writer's configuration fields; << >> is None
    lastCall,        \* history: the last setter call and how it ended
    calls,           \* number of setter calls made
    shm_arrays,      \* live Array(c_wchar, 32) objects
    processes,       \* live Process objects
    shm_ref,         \* the Array writer._shm_name names, 0 if none
    process_ref,     \* the Process writer._process (or writer.p) names
    prepares,   \* number of prepare() calls made
    instances,       \* Singleton._instances[cls]; << >> while cls is not a key
    lock,            \* Singleton._lock: the thread holding it, 0 if free
    callPc,          \* per thread: its position in Singleton.__call__
    instance,        \* per thread: the local `instance`, 0 if unbound
    returned,        \* history, per thread: the instances its calls returned
    constructorRuns, \* history: times cls.__init__ was entered
    constructorOk,   \* history: times cls.__init__ ran to its end
    callCount,   \* history: calls of the class made so far
    sorted_file_list, \* the matching local files, by size: "small" or "large"
    file_number,     \* position of the transfer loop in sorted_file_list
    subprocess,      \* per file: state of its rsync subprocess
    log_file,        \* per file: what rsync has written to the log so far
    deleted,         \* local files removed so far
    deletedWhen,     \* history, per file: the subprocess states at its removal
    transferPc,   \* position of FileTransfer._run
    generator_frame_count, \* frame_count handed to FrameGenerator._run
    buffer,          \* the frame queue: numbers of the frames it holds
    frame_counter,   \* frame.value
    dropped_frames,  \* dropped_frames.value
    enqueued,        \* history: frames put into the queue
    frame_i,         \* the loop variable i
    qsize,           \* what buffer.qsize() returned at the last test
    generatorPc,   \* position of FrameGenerator._run
    projection_frame_count, \* MaxProjection._frame_count_px_px
    z_projection_count, \* MaxProjection._z_projection_count_px
    new_image,       \* the Event new_image
    latest_img,      \* number of the frame in the shared image, -1 if none
    signalled,       \* history: frames the producer has signalled
    mip_frame_index, \* the local frame_index of _run
    mip_start_index, \* the local start_index of _run
    mip_xy,          \* frames folded into mip_xy since its last reset
    folded,          \* history: the frames folded, in order
    xy_written,      \* history: the xy projections written
    projectionPc     \* position of MaxProjection._run

streamVars == << kind, requested, frame_count, mem, write_buf, shm_name,
                 done_reading, pcP, frame_index, chunkP, grabbed, published,
                 pcW, chunk_num, attached, backendLog, progress, finalized,
                 faultChunk >>

setterVars == << fcIn, fcKind, fcOut, fcDone >>

verifyVars == << stage_axes, tiles, channels, cameras, writers, transfers,
                 verifyResult >>

runVars == << runPc, acquisition_name, opName, dirs >>

diskVars == << platform_system, disk_cameras, tile_steps, free, diskMode,
               diskResult, compared, device_named_transfers >>

calibVars == << compression, compression_ratio, trigger_mode,
                initial_trigger, filename, geometry, camera_state,
                writer_acquisition_name, disk_files >>

writerVars == << writer_class, fields, lastCall, calls, shm_arrays,
                 processes, shm_ref, process_ref, prepares >>

singletonVars == << instances, lock, callPc, instance, returned,
                    constructorRuns, constructorOk, callCount >>

transferVars == << sorted_file_list, file_number, subprocess, log_file,
                   deleted, deletedWhen, transferPc >>

generatorVars == << generator_frame_count, buffer, frame_counter,
                    dropped_frames, enqueued, frame_i, qsize, generatorPc >>

projectionVars == << projection_frame_count, z_projection_count, new_image,
                     latest_img, signalled, mip_frame_index,
                     mip_start_index, mip_xy, folded, xy_written,
                     projectionPc >>

vars == << streamVars, setterVars, verifyVars, runVars, diskVars, calibVars,
                    writerVars, singletonVars, transferVars, generatorVars,
                    projectionVars >>

\* ------------------------------------------------- streaming: initial state

\* State after the writer's construction (done_reading is set in __init__)
\* and before the producer starts.
StreamInit ==
    /\ kind \in WriterKinds
    /\ requested \in FrameCounts
    /\ frame_count = 0
    /\ mem = [r \in Regions |-> EmptyRegion]
    /\ write_buf = "A"
    /\ shm_name = ""
    /\ done_reading = TRUE
    /\ pcP = "configure"
    /\ frame_index = 0
    /\ chunkP = 0
    /\ grabbed = 0
    /\ published = << >>
    /\ pcW = "idle"
    /\ chunk_num = 0
    /\ attached = ""
    /\ backendLog = << >>
    /\ progress = 0
    /\ finalized = FALSE
    /\ faultChunk = -1

\* Values the variables of the other specifications keep under Spec.
SetterIdle == fcIn = 0 /\ fcKind = "zarr" /\ fcOut = 0 /\ fcDone = TRUE

VerifyIdle ==
    /\ stage_axes = << >>
    /\ tiles = << >>
    /\ channels = {}
    /\ cameras = {}
    /\ writers = << >>
    /\ transfers = << >>
    /\ verifyResult = "idle"

RunIdle ==
    /\ runPc = "idle"
    /\ acquisition_name = "None"
    /\ opName = << >>
    /\ dirs = {}

DiskIdle ==
    /\ platform_system = "Linux"
    /\ disk_cameras = << >>
    /\ tile_steps = << >>
    /\ free = << >>
    /\ diskMode = "none"
    /\ diskResult = "idle"
    /\ compared = << >>
    /\ device_named_transfers = FALSE

\* COMPRESSIONS (zarr) and COMPRESSION_TYPES (imaris): codec name to the
\* backend's codec object.
COMPRESSIONS(wk) ==
    IF wk = "zarr"
    THEN [c \in {"lz4", "zstd", "none"} |->
             CASE c = "lz4" -> "BLOSC_LZ4" [] c = "zstd" -> "BLOSC_ZSTD"
               [] OTHER -> "NONE"]
    ELSE [c \in {"lz4shuffle", "none"} |->
             IF c = "lz4shuffle" THEN "eCompressionAlgorithmShuffleLZ4"
             ELSE "eCompressionAlgorithmNone"]

\* The compression getter: the name whose codec object is the stored one.
CompressionGetter(wk, stored) ==
    CHOOSE key \in DOMAIN COMPRESSIONS(wk) : COMPRESSIONS(wk)[key] = stored

\* File names are sequences of a stem and the extensions that follow it;
\* the empty sequence stands for a name that was never assigned.
Extension(wk) == IF wk = "zarr" THEN ".zarr" ELSE ".ims"

\* filename.endswith(".zarr") / filename.endswith(".ims")
EndsWithExtension(wk, name) ==
    Len(name) > 1 /\ name[Len(name)] = Extension(wk)

\* The filename setters: the writer's extension is appended unless the
\* name already ends with it.
FilenameSetter(wk, name) ==
    IF EndsWithExtension(wk, name) THEN name ELSE Append(name, Extension(wk))

\* camera.height_px and camera.width_px of the modelled camera
CameraPx == [rows |-> 2, cols |-> 3]

\* Row and column count of a writer that was never given any
NoGeometry == [rows |-> 0, cols |-> 0]

\* The calibration variables after construction of writer and camera, for
\* a writer whose codec is still the constructor's.
CalibIdle ==
    /\ compression = COMPRESSIONS("zarr")["none"]
    /\ compression_ratio = "unset"
    /\ trigger_mode = "on"
    /\ initial_trigger = "unbound"
    /\ filename = << >>
    /\ geometry = NoGeometry
    /\ camera_state = "idle"
    /\ writer_acquisition_name = << >>
    /\ disk_files = {}

\* The acquisition_name attribute of the writer when the calibration
\* starts: the empty path of a writer that was never given a name, or the
\* name _set_acquisition_name gave it. The imaris writer has no such
\* attribute.
WriterAcquisitionNames(wk) ==
    IF wk = "zarr" THEN { << >>, <<"acq1">> } ELSE { << >> }

\* The same with any codec the compression setter accepts assigned.
CalibInit ==
    /\ compression \in { COMPRESSIONS(kind)[c] : c \in DOMAIN COMPRESSIONS(kind) }
    /\ compression_ratio = "unset"
    /\ trigger_mode = "on"
    /\ initial_trigger = "unbound"
    /\ filename = << >>
    /\ geometry = NoGeometry
    /\ camera_state = "idle"
    /\ writer_acquisition_name \in WriterAcquisitionNames(kind)
    /\ disk_files = {}

NoCall == [field |-> "none", value |-> "none", raised |-> FALSE]

WriterIdle ==
    /\ writer_class = "zarr"
    /\ fields = << >>
    /\ lastCall = NoCall
    /\ calls = 0
    /\ shm_arrays = {}
    /\ processes = {}
    /\ shm_ref = 0
    /\ process_ref = 0
    /\ prepares = 0

\* Threads that construct the class, and the calls they make in all.
MaxThreads == 3

MaxCalls == 4

Threads == 1 .. MaxThreads

SingletonIdle ==
    /\ instances = << >>
    /\ lock = 0
    /\ callPc = [t \in Threads |-> "idle"]
    /\ instance = [t \in Threads |-> 0]
    /\ returned = [t \in Threads |-> {}]
    /\ constructorRuns = 0
    /\ constructorOk = 0
    /\ callCount = 0

\* Files of one transfer.
MaxFiles == 2

TransferIdle ==
    /\ sorted_file_list = << >>
    /\ file_number = 0
    /\ subprocess = << >>
    /\ log_file = << >>
    /\ deleted = {}
    /\ deletedWhen = << >>
    /\ transferPc = "idle"

BUFFER_SIZE_FRAMES == 8

\* Frames one run of the generator is asked for.
MaxGeneratorFrames == 10

GeneratorIdle ==
    /\ generator_frame_count = 0
    /\ buffer = << >>
    /\ frame_counter = 0
    /\ dropped_frames = 0
    /\ enqueued = 0
    /\ frame_i = 1
    /\ qsize = 0
    /\ generatorPc = "idle"

\* Frames of one stack, and frames per xy projection.
MaxProjectionFrames == 5

MaxZProjection == 3

ProjectionIdle ==
    /\ projection_frame_count = 0
    /\ z_projection_count = 1
    /\ new_image = FALSE
    /\ latest_img = -1
    /\ signalled = 0
    /\ mip_frame_index = 0
    /\ mip_start_index = 0
    /\ mip_xy = {}
    /\ folded = << >>
    /\ xy_written = << >>
    /\ projectionPc = "idle"

Init ==
    /\ StreamInit
    /\ SetterIdle
    /\ VerifyIdle
    /\ RunIdle
    /\ DiskIdle
    /\ CalibInit
    /\ WriterIdle
    /\ SingletonIdle
    /\ TransferIdle
    /\ GeneratorIdle
    /\ ProjectionIdle

\* ------------------------------------------------------ streaming: producer

\* Number of chunks the producer's stream is cut into.
ProducerChunks == CeilDiv(requested, CHUNK_COUNT_PX)

\* Whether another chunk remains to be acquired after a handoff.
MoreChunks == chunkP < ProducerChunks

\* Frames the producer puts into the chunk it is filling: a full chunk
\* (range(writer.chunk_count_px)) except for a short last chunk.
FillCount ==
    IF requested - chunkP * CHUNK_COUNT_PX < CHUNK_COUNT_PX
    THEN requested - chunkP * CHUNK_COUNT_PX
    ELSE CHUNK_COUNT_PX

\* the producer going on without looking at the release flag
ReleaseIgnored == TRUE

\* while not writer.done_reading.is_set(): sleep  -- the loop's exit test
ReleaseObserved == done_reading

\* A test of the codec that sends every writer through the calibration.
NeedsCalibrationAlways == TRUE

\* if writer.compression != "none"
NeedsCalibration == CompressionGetter(kind, compression) # "none"

\* The calibration branch up to the buffer's construction: the trigger is
\* switched off through the dictionary that initial_trigger also names,
\* then writer.row_count_px, column_count_px, frame_count_px and filename
\* are assigned and img_buffer = SharedDoubleBuffer(...) is built.
ProducerConfigure ==
    /\ pcP = "configure"
    /\ NeedsCalibration
    /\ initial_trigger' = "off"
    /\ trigger_mode' = "off"
    /\ geometry' = CameraPx
    /\ frame_count' = FrameCountSetter(kind, requested)
    /\ filename' = FilenameSetter(kind, <<"compression_ratio_test">>)
    /\ mem' = [r \in Regions |-> EmptyRegion]
    /\ write_buf' = "A"
    /\ pcP' = "prepare"
    /\ UNCHANGED << kind, requested, shm_name, done_reading, frame_index,
                    chunkP, grabbed, published, pcW, chunk_num, attached,
                    backendLog, progress, finalized, faultChunk,
                    compression, compression_ratio, camera_state,
                    writer_acquisition_name, disk_files,
                    setterVars, verifyVars, runVars, diskVars, writerVars,
                    singletonVars, transferVars, generatorVars,
                    projectionVars >>

\* The other branch: compression_ratio = 1.0, and the return.
ProducerReturnOne ==
    /\ pcP = "configure"
    /\ ~NeedsCalibration
    /\ compression_ratio' = "1.0"
    /\ pcP' = "returned"
    /\ UNCHANGED << kind, requested, frame_count, mem, write_buf, shm_name,
                    done_reading, frame_index, chunkP, grabbed, published,
                    pcW, chunk_num, attached, backendLog, progress,
                    finalized, faultChunk,
                    compression, trigger_mode, initial_trigger, filename,
                    geometry, camera_state, writer_acquisition_name,
                    disk_files,
                    setterVars, verifyVars, runVars, diskVars, writerVars,
                    singletonVars, transferVars, generatorVars,
                    projectionVars >>

\* writer.prepare(): a fresh shm_name array and the worker process
\* object; then camera.prepare()
ProducerPrepare ==
    /\ pcP = "prepare"
    /\ shm_name' = ""
    /\ pcW' = "prepared"
    /\ camera_state' = "prepared"
    /\ pcP' = "start"
    /\ UNCHANGED << kind, requested, frame_count, mem, write_buf,
                    done_reading, frame_index, chunkP, grabbed, published,
                    chunk_num, attached, backendLog, progress, finalized,
                    faultChunk,
                    compression, compression_ratio, trigger_mode,
                    initial_trigger, filename, geometry,
                    writer_acquisition_name, disk_files,
                    setterVars, verifyVars, runVars, diskVars, writerVars,
                    singletonVars, transferVars, generatorVars,
                    projectionVars >>

\* The file the worker writes: _run builds the path from the writer's
\* path, its acquisition name (zarr) and its filename.
WrittenPath ==
    [dir |-> IF kind = "zarr" THEN writer_acquisition_name ELSE << >>,
     name |-> filename]

\* The file _check_compression_ratio measures: writer.path / writer.filename
MeasuredPath == [dir |-> << >>, name |-> filename]

\* The file delete_files() removes. The imaris writer class has no
\* delete_files; it is taken to remove the file the writer wrote.
ImarisDeletePath == [dir |-> << >>, name |-> filename]

ZarrDeletePath == [dir |-> writer_acquisition_name, name |-> filename]

DeletePath == IF kind = "zarr" THEN ZarrDeletePath ELSE ImarisDeletePath

\* a writer that start() launches whatever was called before
HasProcessAlways == TRUE

\* self.p exists: prepare() has assigned the Process object. start() on a
\* writer without it raises AttributeError at `self.p`.
HasProcess == pcW = "prepared"

\* writer.start() called on the configured writer before prepare()
WriterStartUnprepared ==
    /\ pcP = "prepare"
    /\ IF HasProcess
       THEN pcW' = "loop" /\ pcP' = "fill"
       ELSE pcW' = pcW /\ pcP' = "start_raised"
    /\ UNCHANGED << kind, requested, frame_count, mem, write_buf, shm_name,
                    done_reading, frame_index, chunkP, grabbed, published,
                    chunk_num, attached, backendLog, progress, finalized,
                    faultChunk,
                    setterVars, verifyVars, runVars, diskVars, calibVars,
                    writerVars, singletonVars, transferVars, generatorVars,
                    projectionVars >>

\* writer.start(): the worker process begins _run, which opens its output
\* file; then camera.start()
ProducerStart ==
    /\ pcP = "start"
    /\ HasProcess
    /\ pcW' = "loop"
    /\ disk_files' = disk_files \cup {WrittenPath}
    /\ chunk_num' = 0
    /\ frame_index' = 0
    /\ camera_state' = "started"
    /\ pcP' = "fill"
    /\ UNCHANGED << kind, requested, frame_count, mem, write_buf, shm_name,
                    done_reading, chunkP, grabbed, published, attached,
                    backendLog, progress, finalized, faultChunk,
                    compression, compression_ratio, trigger_mode,
                    initial_trigger, filename, geometry,
                    writer_acquisition_name,
                    setterVars, verifyVars, runVars, diskVars, writerVars,
                    singletonVars, transferVars, generatorVars,
                    projectionVars >>

\* the loop variable as it would run if the body's `frame_index += 1`
\* carried over into the next iteration
NextFrameIndexTwice(i) == i + 2

\* for frame_index in range(writer.chunk_count_px): the next iteration's
\* value comes from range(), whatever the body assigned to the variable
NextFrameIndex(i) == i + 1

\* one iteration of the frame loop: grab a frame, store it at frame_index
ProducerGrabFrame ==
    /\ pcP = "fill"
    /\ frame_index < FillCount
    /\ grabbed' = grabbed + 1
    /\ frame_index \in Slots
    /\ mem' = [mem EXCEPT
                   ![write_buf] = StoreFrame(@, frame_index, grabbed + 1)]
    /\ frame_index' = NextFrameIndex(frame_index)
    /\ UNCHANGED << kind, requested, frame_count, write_buf, shm_name,
                    done_reading, pcP, chunkP, published, pcW, chunk_num,
                    attached, backendLog, progress, finalized, faultChunk,
                    setterVars, verifyVars, runVars, diskVars, calibVars,
                    writerVars, singletonVars, transferVars, generatorVars,
                    projectionVars >>

\* the frame loop is exhausted
ProducerFillDone ==
    /\ pcP = "fill"
    /\ frame_index >= FillCount
    /\ pcP' = "wait"
    /\ UNCHANGED << kind, requested, frame_count, mem, write_buf, shm_name,
                    done_reading, frame_index, chunkP, grabbed, published,
                    pcW, chunk_num, attached, backendLog, progress,
                    finalized, faultChunk,
                    setterVars, verifyVars, runVars, diskVars, calibVars,
                    writerVars, singletonVars, transferVars, generatorVars,
                    projectionVars >>

\* while not writer.done_reading.is_set(): time.sleep(0.001)
ProducerWait ==
    /\ pcP = "wait"
    /\ ReleaseObserved
    /\ pcP' = "toggle"
    /\ UNCHANGED << kind, requested, frame_count, mem, write_buf, shm_name,
                    done_reading, frame_index, chunkP, grabbed, published,
                    pcW, chunk_num, attached, backendLog, progress,
                    finalized, faultChunk,
                    setterVars, verifyVars, runVars, diskVars, calibVars,
                    writerVars, singletonVars, transferVars, generatorVars,
                    projectionVars >>

\* SharedDoubleBuffer.toggle_buffers(): the two regions swap roles
ToggleBuffers(w) == Other(w)

\* img_buffer.toggle_buffers()
ProducerToggle ==
    /\ pcP = "toggle"
    /\ write_buf' = ToggleBuffers(write_buf)
    /\ pcP' = "publish"
    /\ UNCHANGED << kind, requested, frame_count, mem, shm_name,
                    done_reading, frame_index, chunkP, grabbed, published,
                    pcW, chunk_num, attached, backendLog, progress,
                    finalized, faultChunk,
                    setterVars, verifyVars, runVars, diskVars, calibVars,
                    writerVars, singletonVars, transferVars, generatorVars,
                    projectionVars >>

\* img_buffer.read_buf_mem_name
ReadBufMemName == Other(write_buf)

\* writer.shm_name = img_buffer.read_buf_mem_name (the guard
\* "writer.path is not None" holds: a writer is constructed with its path)
ProducerPublish ==
    /\ pcP = "publish"
    /\ shm_name' = ReadBufMemName
    /\ published' = Append(published,
                           [region |-> ReadBufMemName,
                            frames |-> mem[ReadBufMemName]])
    /\ pcP' = "clear"
    /\ UNCHANGED << kind, requested, frame_count, mem, write_buf,
                    done_reading, frame_index, chunkP, grabbed, pcW,
                    chunk_num, attached, backendLog, progress, finalized,
                    faultChunk,
                    setterVars, verifyVars, runVars, diskVars, calibVars,
                    writerVars, singletonVars, transferVars, generatorVars,
                    projectionVars >>

\* writer.done_reading.clear()
ProducerClear ==
    /\ pcP = "clear"
    /\ done_reading' = FALSE
    /\ chunkP' = chunkP + 1
    /\ pcP' = "handed"
    /\ UNCHANGED << kind, requested, frame_count, mem, write_buf, shm_name,
                    frame_index, grabbed, published, pcW, chunk_num,
                    attached, backendLog, progress, finalized, faultChunk,
                    setterVars, verifyVars, runVars, diskVars, calibVars,
                    writerVars, singletonVars, transferVars, generatorVars,
                    projectionVars >>

\* the acquisition goes on with the next chunk of the stream
ProducerNextChunk ==
    /\ pcP = "handed"
    /\ MoreChunks
    /\ frame_index' = 0
    /\ pcP' = "fill"
    /\ UNCHANGED << kind, requested, frame_count, mem, write_buf, shm_name,
                    done_reading, chunkP, grabbed, published, pcW, chunk_num,
                    attached, backendLog, progress, finalized, faultChunk,
                    setterVars, verifyVars, runVars, diskVars, calibVars,
                    writerVars, singletonVars, transferVars, generatorVars,
                    projectionVars >>

\* Process.join() returns once the worker process has exited
WorkerExited == pcW \in {"finished", "faulted"}

\* writer.wait_to_finish()
ProducerWaitToFinish ==
    /\ pcP = "handed"
    /\ ~MoreChunks
    /\ WorkerExited
    /\ pcP' = "stop"
    /\ UNCHANGED << kind, requested, frame_count, mem, write_buf, shm_name,
                    done_reading, frame_index, chunkP, grabbed, published,
                    pcW, chunk_num, attached, backendLog, progress,
                    finalized, faultChunk,
                    setterVars, verifyVars, runVars, diskVars, calibVars,
                    writerVars, singletonVars, transferVars, generatorVars,
                    projectionVars >>

\* camera.stop(); camera.trigger = initial_trigger;
\* img_buffer.close_and_unlink()
ProducerStop ==
    /\ pcP = "stop"
    /\ camera_state' = "stopped"
    /\ trigger_mode' = initial_trigger
    /\ pcP' = "measure"
    /\ UNCHANGED << kind, requested, frame_count, mem, write_buf, shm_name,
                    done_reading, frame_index, chunkP, grabbed, published,
                    pcW, chunk_num, attached, backendLog, progress,
                    finalized, faultChunk,
                    compression, compression_ratio, initial_trigger,
                    filename, geometry, writer_acquisition_name, disk_files,
                    setterVars, verifyVars, runVars, diskVars, writerVars,
                    singletonVars, transferVars, generatorVars,
                    projectionVars >>

\* os.stat(filepath) and the ratio computed from the size; os.stat raises
\* FileNotFoundError when there is no such file.
ProducerMeasure ==
    /\ pcP = "measure"
    /\ IF MeasuredPath \in disk_files
       THEN compression_ratio' = "measured" /\ pcP' = "delete"
       ELSE compression_ratio' = compression_ratio /\ pcP' = "raised"
    /\ UNCHANGED << kind, requested, frame_count, mem, write_buf, shm_name,
                    done_reading, frame_index, chunkP, grabbed, published,
                    pcW, chunk_num, attached, backendLog, progress,
                    finalized, faultChunk,
                    compression, trigger_mode, initial_trigger, filename,
                    geometry, camera_state, writer_acquisition_name,
                    disk_files,
                    setterVars, verifyVars, runVars, diskVars, writerVars,
                    singletonVars, transferVars, generatorVars,
                    projectionVars >>

\* writer.delete_files(), and the return of the ratio; os.remove raises
\* FileNotFoundError when there is no such file.
ProducerDeleteFiles ==
    /\ pcP = "delete"
    /\ IF DeletePath \in disk_files
       THEN disk_files' = disk_files \ {DeletePath} /\ pcP' = "done"
       ELSE disk_files' = disk_files /\ pcP' = "raised"
    /\ UNCHANGED << kind, requested, frame_count, mem, write_buf, shm_name,
                    done_reading, frame_index, chunkP, grabbed, published,
                    pcW, chunk_num, attached, backendLog, progress,
                    finalized, faultChunk,
                    compression, compression_ratio, trigger_mode,
                    initial_trigger, filename, geometry, camera_state,
                    writer_acquisition_name,
                    setterVars, verifyVars, runVars, diskVars, writerVars,
                    singletonVars, transferVars, generatorVars,
                    projectionVars >>

Producer ==
    \/ ProducerConfigure
    \/ ProducerReturnOne
    \/ ProducerPrepare
    \/ WriterStartUnprepared
    \/ ProducerStart
    \/ ProducerGrabFrame
    \/ ProducerFillDone
    \/ ProducerWait
    \/ ProducerToggle
    \/ ProducerPublish
    \/ ProducerClear
    \/ ProducerNextChunk
    \/ ProducerWaitToFinish
    \/ ProducerStop
    \/ ProducerMeasure
    \/ ProducerDeleteFiles

\* -------------------------------------------------- streaming: the worker

\* chunk_total = ceil(self._frame_count_px / CHUNK_COUNT_PX)
chunk_total == ChunkTotal(frame_count)

\* a worker that does not wait for the producer
NewDataIgnored == TRUE

\* while self.done_reading.is_set(): sleep  -- the loop's exit test
NewDataAvailable == ~done_reading

\* the for loop is entered for chunk_num and new data has arrived
WorkerWait ==
    /\ pcW = "loop"
    /\ chunk_num < chunk_total
    /\ NewDataAvailable
    /\ pcW' = "attach"
    /\ UNCHANGED << kind, requested, frame_count, mem, write_buf, shm_name,
                    done_reading, pcP, frame_index, chunkP, grabbed,
                    published, chunk_num, attached, backendLog, progress,
                    finalized, faultChunk,
                    setterVars, verifyVars, runVars, diskVars, calibVars,
                    writerVars, singletonVars, transferVars, generatorVars,
                    projectionVars >>

\* shm = SharedMemory(self.shm_name, create=False, ...): raises when no
\* region of that name exists
WorkerAttach ==
    /\ pcW = "attach"
    /\ IF shm_name \in Regions
       THEN attached' = shm_name /\ pcW' = "copy"
       ELSE attached' = "" /\ pcW' = "faulted"
    /\ UNCHANGED << kind, requested, frame_count, mem, write_buf, shm_name,
                    done_reading, pcP, frame_index, chunkP, grabbed,
                    published, chunk_num, backendLog, progress, finalized,
                    faultChunk,
                    setterVars, verifyVars, runVars, diskVars, calibVars,
                    writerVars, singletonVars, transferVars, generatorVars,
                    projectionVars >>

\* every block filed at z = 0
BlockIndexStuck == 0 * chunk_num

\* Index under which the backend files the block: block_index.z = chunk_num
\* (imaris); the stream's own append position (zarr).
BlockIndex == IF kind = "imaris" THEN chunk_num ELSE Len(backendLog)

\* converter.CopyBlock(frames..., block_index) / stream.append(frames)
WorkerCopy ==
    /\ pcW = "copy"
    /\ backendLog' = Append(backendLog,
                            [index  |-> BlockIndex,
                             region |-> attached,
                             frames |-> mem[attached],
                             depth  |-> ShmDepth])
    /\ pcW' = "close"
    /\ UNCHANGED << kind, requested, frame_count, mem, write_buf, shm_name,
                    done_reading, pcP, frame_index, chunkP, grabbed,
                    published, chunk_num, attached, progress, finalized,
                    faultChunk,
                    setterVars, verifyVars, runVars, diskVars, calibVars,
                    writerVars, singletonVars, transferVars, generatorVars,
                    projectionVars >>

\* the backend call raises: nothing in _run catches it, the worker process
\* dies there and its mapping of the region goes with it
WorkerCopyRaises ==
    /\ pcW = "copy"
    /\ faultChunk' = chunk_num
    /\ attached' = ""
    /\ pcW' = "faulted"
    /\ UNCHANGED << kind, requested, frame_count, mem, write_buf, shm_name,
                    done_reading, pcP, frame_index, chunkP, grabbed,
                    published, chunk_num, backendLog, progress, finalized,
                    setterVars, verifyVars, runVars, diskVars, calibVars,
                    writerVars, singletonVars, transferVars, generatorVars,
                    projectionVars >>

\* shm.close() left out: the worker keeps its mapping of the region
WorkerCloseMissing ==
    /\ pcW = "close"
    /\ attached' = attached
    /\ pcW' = "set"
    /\ UNCHANGED << kind, requested, frame_count, mem, write_buf, shm_name,
                    done_reading, pcP, frame_index, chunkP, grabbed,
                    published, chunk_num, backendLog, progress, finalized,
                    faultChunk,
                    setterVars, verifyVars, runVars, diskVars, calibVars,
                    writerVars, singletonVars, transferVars, generatorVars,
                    projectionVars >>

\* shm.close()
WorkerClose ==
    /\ pcW = "close"
    /\ attached' = ""
    /\ pcW' = "set"
    /\ UNCHANGED << kind, requested, frame_count, mem, write_buf, shm_name,
                    done_reading, pcP, frame_index, chunkP, grabbed,
                    published, chunk_num, backendLog, progress, finalized,
                    faultChunk,
                    setterVars, verifyVars, runVars, diskVars, calibVars,
                    writerVars, singletonVars, transferVars, generatorVars,
                    projectionVars >>

\* self.done_reading.set(), then (zarr) shared_progress.value =
\* (chunk_num + 1) / chunk_total, and the loop moves to the next chunk
WorkerSet ==
    /\ pcW = "set"
    /\ done_reading' = TRUE
    /\ progress' = IF kind = "zarr" THEN chunk_num + 1 ELSE progress
    /\ chunk_num' = chunk_num + 1
    /\ pcW' = "loop"
    /\ UNCHANGED << kind, requested, frame_count, mem, write_buf, shm_name,
                    pcP, frame_index, chunkP, grabbed, published, attached,
                    backendLog, finalized, faultChunk,
                    setterVars, verifyVars, runVars, diskVars, calibVars,
                    writerVars, singletonVars, transferVars, generatorVars,
                    projectionVars >>

\* the chunk loop has ended; the imaris worker goes on to wait for the
\* backend, the zarr worker has nothing left to do but leave _run
WorkerLoopDone ==
    /\ pcW = "loop"
    /\ chunk_num >= chunk_total
    /\ pcW' = IF kind = "imaris" THEN "drain" ELSE "finished"
    /\ UNCHANGED << kind, requested, frame_count, mem, write_buf, shm_name,
                    done_reading, pcP, frame_index, chunkP, grabbed,
                    published, chunk_num, attached, backendLog, progress,
                    finalized, faultChunk,
                    setterVars, verifyVars, runVars, diskVars, calibVars,
                    writerVars, singletonVars, transferVars, generatorVars,
                    projectionVars >>

\* the worker finalizing without waiting for the backend
DrainSkipped == TRUE

\* the exit test with the comparison off by one: never satisfied
BackendCompleteStrict == progress > chunk_total

\* while self.callback_class.progress < 1.0: sleep  -- the loop's exit test
BackendComplete == progress >= chunk_total

\* the wait for the backend ends
WorkerDrain ==
    /\ pcW = "drain"
    /\ BackendComplete
    /\ pcW' = "finish"
    /\ UNCHANGED << kind, requested, frame_count, mem, write_buf, shm_name,
                    done_reading, pcP, frame_index, chunkP, grabbed,
                    published, chunk_num, attached, backendLog, progress,
                    finalized, faultChunk,
                    setterVars, verifyVars, runVars, diskVars, calibVars,
                    writerVars, singletonVars, transferVars, generatorVars,
                    projectionVars >>

\* converter.Finish(extents, parameters, time_infos, color_infos, ...);
\* converter.Destroy()
WorkerFinish ==
    /\ pcW = "finish"
    /\ finalized' = TRUE
    /\ pcW' = "finished"
    /\ UNCHANGED << kind, requested, frame_count, mem, write_buf, shm_name,
                    done_reading, pcP, frame_index, chunkP, grabbed,
                    published, chunk_num, attached, backendLog, progress,
                    faultChunk,
                    setterVars, verifyVars, runVars, diskVars, calibVars,
                    writerVars, singletonVars, transferVars, generatorVars,
                    projectionVars >>

\* ImarisProgressChecker.RecordProgress: the backend's own threads report
\* how much of what it was handed is on disk
BackendRecordProgress ==
    /\ kind = "imaris"
    /\ pcW \notin {"idle", "prepared", "finished", "faulted"}
    /\ \E p \in (progress + 1) .. Len(backendLog) : progress' = p
    /\ UNCHANGED << kind, requested, frame_count, mem, write_buf, shm_name,
                    done_reading, pcP, frame_index, chunkP, grabbed,
                    published, pcW, chunk_num, attached, backendLog,
                    finalized, faultChunk,
                    setterVars, verifyVars, runVars, diskVars, calibVars,
                    writerVars, singletonVars, transferVars, generatorVars,
                    projectionVars >>

Worker ==
    \/ WorkerWait
    \/ WorkerAttach
    \/ WorkerCopy
    \/ WorkerCopyRaises
    \/ WorkerClose
    \/ WorkerSet
    \/ WorkerLoopDone
    \/ WorkerDrain
    \/ WorkerFinish

\* The worker's state in the vocabulary of the writer's life cycle.
WorkerState ==
    CASE pcW = "idle" -> "Idle"
      [] pcW = "prepared" -> "Prepared"
      [] pcW \in {"loop", "attach", "copy", "close", "set"} -> "Running"
      [] pcW \in {"drain", "finish"} -> "Draining"
      [] pcW = "finished" -> "Finished"
      [] OTHER -> "Faulted"

Next ==
    \/ ProducerConfigure
    \/ ProducerReturnOne
    \/ ProducerPrepare
    \/ WriterStartUnprepared
    \/ ProducerStart
    \/ ProducerGrabFrame
    \/ ProducerFillDone
    \/ ProducerWait
    \/ ProducerToggle
    \/ ProducerPublish
    \/ ProducerClear
    \/ ProducerNextChunk
    \/ ProducerWaitToFinish
    \/ ProducerStop
    \/ ProducerMeasure
    \/ ProducerDeleteFiles
    \/ WorkerWait
    \/ WorkerAttach
    \/ WorkerCopy
    \/ WorkerCopyRaises
    \/ WorkerClose
    \/ WorkerSet
    \/ WorkerLoopDone
    \/ WorkerDrain
    \/ WorkerFinish
    \/ BackendRecordProgress

Spec == Init /\ [][Next]_vars

\* Producer, worker and backend run in separate processes and threads that
\* the operating system keeps scheduling.
FairSpec ==
    /\ Spec
    /\ WF_vars(Producer)
    /\ WF_vars(Worker)

\* ------------------------------------------------ the frame-count setters

\* The streaming variables at rest, for the specifications that do not
\* stream.
StreamIdle == StreamInit /\ kind = "zarr" /\ requested = CHUNK_COUNT_PX

SetterInit ==
    /\ fcIn \in 0 .. MaxFrameCount
    /\ fcKind \in WriterKinds
    /\ fcOut = 0
    /\ fcDone = FALSE
    /\ StreamIdle
    /\ VerifyIdle
    /\ RunIdle
    /\ DiskIdle
    /\ CalibIdle
    /\ WriterIdle
    /\ SingletonIdle
    /\ TransferIdle
    /\ GeneratorIdle
    /\ ProjectionIdle

\* writer.frame_count_px = fcIn  /  writer.frame_count = fcIn
SetFrameCount ==
    /\ ~fcDone
    /\ fcOut' = FrameCountSetter(fcKind, fcIn)
    /\ fcDone' = TRUE
    /\ UNCHANGED << fcIn, fcKind, streamVars, verifyVars, runVars, diskVars,
                    calibVars, writerVars, singletonVars, transferVars,
                    generatorVars, projectionVars >>

SetterNext == SetFrameCount

SetterSpec == SetterInit /\ [][SetterNext]_vars

\* ------------------------------------------- verification of the acquisition

\* Largest number of tiles of a modelled acquisition plan.
MaxTiles == 2

CameraIds == {"cam0", "cam1"}

\* Lists of output paths of one device's writers (or transfers).
PathLists == { <<"p1">>, <<"p1", "p2">>, <<"p1", "p1">> }

\* instrument.channels, and the channels a tile may name
InstrumentChannels == {"488", "561"}

TileChannels == {"488", "639"}

\* Key lists of a tile's position_mm: the stage axes in two orders, one
\* axis missing, one axis extra, one axis under another name.
TileAxesChoices ==
    { <<"x", "y", "z">>, <<"z", "x", "y">>, <<"x", "y">>,
      <<"x", "y", "z", "t">>, <<"x", "y", "t">> }

StageAxesChoices == { <<"x", "y", "z">>, <<"z", "y", "x">> }

Tiles == [axes : TileAxesChoices, channel : TileChannels]

TileLists == UNION { [1 .. n -> Tiles] : n \in 1 .. MaxTiles }

\* Dictionaries from device name to the list of its operations' paths.
OperationDicts(domains) == UNION { [d -> PathLists] : d \in domains }

Elems(seq) == { seq[i] : i \in 1 .. Len(seq) }

AxisRank(a) ==
    CASE a = "t" -> 1 [] a = "x" -> 2 [] a = "y" -> 3 [] OTHER -> 4

\* What list.sort() leaves in the list: its elements in ascending order.
SortedInPlace(seq) == SortSeq(seq, LAMBDA a, b : AxisRank(a) < AxisRank(b))

\* What the expression lst.sort() evaluates to: None, whatever the list.
ListSortValue(seq) == "None"

\* position_axes.sort() != self.instrument.stage_axes.sort()
AxesDiffer(tile_axes, st_axes) ==
    ListSortValue(tile_axes) # ListSortValue(st_axes)

\* A duplicate test that compares the list's length with itself.
HasDuplicatesNever(seq) == Len(seq) # Len(seq)

\* len(paths) != len(set(paths))
HasDuplicates(seq) == Len(seq) # Cardinality(Elems(seq))

\* A channel test that accepts every channel name.
ChannelCheckSkipped(tile_channel) == TRUE

\* tile_channel in self.instrument.channels
ChannelConfigured(tile_channel) == tile_channel \in channels

\* A writer test that is satisfied by a writer of any device.
CameraHasSomeWriter(camera_id) == DOMAIN writers # {}

\* camera_id in self.writers.keys()
CameraHasWriter(camera_id) == camera_id \in DOMAIN writers

\* hasattr(self, "writers"): the attribute exists once some device of the
\* configuration has a writer operation, and then holds a non-empty
\* dictionary; the empty dictionary stands for the missing attribute.
HasWritersAttribute == DOMAIN writers # {}

\* The tile loop from tile i on: the first error raised, if any.
RECURSIVE TileCheck(_)
TileCheck(i) ==
    IF i > Len(tiles) THEN "ok"
    ELSE IF AxesDiffer(tiles[i].axes, stage_axes) THEN "raise_axes"
    ELSE IF ~ChannelConfigured(tiles[i].channel) THEN "raise_channel"
    ELSE TileCheck(i + 1)

\* _verify_acquisition: "ok" when it returns, else the error raised: a
\* ValueError, or the AttributeError of reading self.writers when no writer
\* operation is configured at all.
VerifyOutcome ==
    IF ~HasWritersAttribute THEN "raise_attribute"
    ELSE IF \E c \in cameras : ~CameraHasWriter(c) THEN "raise_no_writer"
    ELSE IF \E d \in DOMAIN writers : HasDuplicates(writers[d])
         THEN "raise_writer_path"
    ELSE IF \E d \in DOMAIN transfers : HasDuplicates(transfers[d])
         THEN "raise_transfer_path"
    ELSE TileCheck(1)

\* Whether the run gets as far as the tile loop's first comparison, which
\* sorts instrument.stage_axes in place.
ReachesTileLoop ==
    /\ VerifyOutcome \in {"ok", "raise_axes", "raise_channel"}
    /\ Len(tiles) >= 1

VerifyInit ==
    /\ cameras \in { {"cam0"}, CameraIds }
    /\ writers \in OperationDicts({ {}, {"cam0"}, {"cam1"}, CameraIds })
    /\ transfers \in OperationDicts({ {}, {"cam0"} })
    /\ channels = InstrumentChannels
    /\ stage_axes \in StageAxesChoices
    /\ tiles \in TileLists
    /\ verifyResult = "idle"
    /\ StreamIdle
    /\ SetterIdle
    /\ RunIdle
    /\ DiskIdle
    /\ CalibIdle
    /\ WriterIdle
    /\ SingletonIdle
    /\ TransferIdle
    /\ GeneratorIdle
    /\ ProjectionIdle

\* self._verify_acquisition()
VerifyAcquisition ==
    /\ verifyResult = "idle"
    /\ verifyResult' = VerifyOutcome
    /\ stage_axes' = IF ReachesTileLoop THEN SortedInPlace(stage_axes)
                     ELSE stage_axes
    /\ UNCHANGED << tiles, channels, cameras, writers, transfers,
                    streamVars, setterVars, runVars, diskVars, calibVars,
                    writerVars, singletonVars, transferVars, generatorVars,
                    projectionVars >>

VerifyNext == VerifyAcquisition

VerifySpec == VerifyInit /\ [][VerifyNext]_vars

\* ------------------------------------------------------------------- run()

\* metadata.acquisition_name
AcquisitionNames == {"acq1", "acq2"}

\* The operations of config["acquisition"]["operations"], each named by its
\* pluralised type, its device and its place among the device's operations
\* of that type: the writers and transfers of the configuration, and one
\* process on the first camera.
ConfiguredOperations ==
    { <<"writers", d, i>> : d \in DOMAIN writers, i \in 1 .. 2 }
    \cup { <<"transfers", d, i>> : d \in DOMAIN transfers, i \in 1 .. 2 }
    \cup { <<"processes", "cam0", 1>> }

Operations ==
    { op \in ConfiguredOperations :
        \/ op[1] = "writers" /\ op[3] <= Len(writers[op[2]])
        \/ op[1] = "transfers" /\ op[3] <= Len(transfers[op[2]])
        \/ op[1] = "processes" }

\* hasattr(operation, "acquisition_name"): writers and file transfers carry
\* the attribute, a max-projection process does not.
HasAcquisitionName(op) == op[1] \in {"writers", "transfers"}

\* Path(writer.path, self.acquisition_name) of every writer; the local and
\* the external disk are told apart.
WriterDirectories ==
    { <<"local", writers[op[2]][op[3]], acquisition_name>> :
        op \in { o \in Operations : o[1] = "writers" } }

\* Path(transfer.external_path, self.acquisition_name) of every transfer
TransferDirectories ==
    { <<"external", transfers[op[2]][op[3]], acquisition_name>> :
        op \in { o \in Operations : o[1] = "transfers" } }

\* Directories an earlier acquisition may have left on the disks.
PreexistingChoices == { {}, { <<"local", "p1", "acq1">> } }

RunInit ==
    /\ cameras \in { {"cam0"}, CameraIds }
    /\ writers \in OperationDicts({ {}, {"cam0"}, {"cam1"}, CameraIds })
    /\ transfers \in OperationDicts({ {}, {"cam0"} })
    /\ channels = InstrumentChannels
    /\ stage_axes = <<"x", "y", "z">>
    /\ tiles \in { t \in TileLists : Len(t) = 1 }
    /\ verifyResult = "idle"
    /\ runPc = "assign"
    /\ acquisition_name = "None"
    /\ opName = [op \in Operations |->
                    IF HasAcquisitionName(op) THEN "unset" ELSE "no_attribute"]
    /\ dirs \in PreexistingChoices
    /\ StreamIdle
    /\ SetterIdle
    /\ DiskIdle
    /\ CalibIdle
    /\ WriterIdle
    /\ SingletonIdle
    /\ TransferIdle
    /\ GeneratorIdle
    /\ ProjectionIdle

\* self.acquisition_name = self.metadata.acquisition_name
RunAssignName ==
    /\ runPc = "assign"
    /\ \E name \in AcquisitionNames : acquisition_name' = name
    /\ runPc' = "propagate"
    /\ UNCHANGED << opName, dirs, verifyVars, streamVars, setterVars,
                    diskVars, calibVars, writerVars, singletonVars,
                    transferVars, generatorVars, projectionVars >>

\* self._set_acquisition_name()
RunSetAcquisitionName ==
    /\ runPc = "propagate"
    /\ opName' = [op \in DOMAIN opName |->
                     IF HasAcquisitionName(op) THEN acquisition_name
                     ELSE opName[op]]
    /\ runPc' = "verify"
    /\ UNCHANGED << acquisition_name, dirs, verifyVars, streamVars,
                    setterVars, diskVars, calibVars, writerVars,
                    singletonVars, transferVars, generatorVars,
                    projectionVars >>

\* A run() in which the error of the verification does not stop the run.
RunAfterVerifyAlways(outcome) == "mkdirs"

\* Where run() continues after self._verify_acquisition(): an error raised
\* there propagates out of run().
RunAfterVerify(outcome) == IF outcome = "ok" THEN "mkdirs" ELSE "raised"

\* self._verify_acquisition()
RunVerify ==
    /\ runPc = "verify"
    /\ verifyResult' = VerifyOutcome
    /\ stage_axes' = IF ReachesTileLoop THEN SortedInPlace(stage_axes)
                     ELSE stage_axes
    /\ runPc' = RunAfterVerify(VerifyOutcome)
    /\ UNCHANGED << tiles, channels, cameras, writers, transfers,
                    acquisition_name, opName, dirs, streamVars, setterVars,
                    diskVars, calibVars, writerVars, singletonVars,
                    transferVars, generatorVars, projectionVars >>

\* self._create_directories(): os.makedirs for every writer directory and
\* every transfer directory that is not there yet.
RunCreateDirectories ==
    /\ runPc = "mkdirs"
    /\ dirs' = dirs \cup WriterDirectories \cup TransferDirectories
    /\ runPc' = "done"
    /\ UNCHANGED << acquisition_name, opName, verifyVars, streamVars,
                    setterVars, diskVars, calibVars, writerVars,
                    singletonVars, transferVars, generatorVars,
                    projectionVars >>

RunNext ==
    \/ RunAssignName
    \/ RunSetAcquisitionName
    \/ RunVerify
    \/ RunCreateDirectories

RunSpec == RunInit /\ [][RunNext]_vars

\* ------------------------------------------------- the disk-space checks

\* Largest free space of a drive, in the unit of steps x frame size.
MaxFreeGb == 6

FreeChoices == {1, 3, MaxFreeGb}

\* Drive letters of writer paths and of transfers' external paths.
DriveLetters == {"C:", "D:"}

DriveLists == UNION { [1 .. n -> DriveLetters] : n \in 1 .. 2 }

\* One camera of the plan: the size of one of its frames, the drives of
\* its writers' paths, the drives of its transfers' external paths (none
\* when no transfer is configured for the camera).
TransferDriveLists == { << >>, <<"D:">>, <<"C:", "D:">> }

DiskCameras ==
    [size : {1, 2}, wdrives : DriveLists, tdrives : TransferDriveLists]

DiskCameraLists ==
    UNION { [1 .. n -> DiskCameras] : n \in 1 .. 2 }

TileStepLists == { <<2>>, <<1, 2>> }

RECURSIVE SumSeq(_)
SumSeq(seq) == IF seq = << >> THEN 0 ELSE Head(seq) + SumSeq(Tail(seq))

RECURSIVE Flatten(_)
Flatten(seqs) == IF seqs = << >> THEN << >> ELSE Head(seqs) \o Flatten(Tail(seqs))

\* os.path.splitdrive(path)[0] on Windows, "/" otherwise
DriveOf(letter) == IF platform_system = "Windows" THEN letter ELSE "/"

\* What the tile loop adds to data_size_gb for one writer of a camera:
\* steps x frame size, summed over the tiles.
TilesGb(cam) ==
    SumSeq([i \in 1 .. Len(tile_steps) |-> tile_steps[i] * cam.size])

\* The values appended to drives[...] for one camera by the local check:
\* data_size_gb is set to zero per camera and grows from writer to writer.
LocalEntriesOf(cam) ==
    [j \in 1 .. Len(cam.wdrives) |->
        [drive |-> DriveOf(cam.wdrives[j]), gb |-> j * TilesGb(cam)]]

\* The values appended for one camera by the external check: data_size_gb
\* is set to zero for every (transfer, writer) pair.
ExternalEntriesOf(cam) ==
    [k \in 1 .. Len(cam.tdrives) * Len(cam.wdrives) |->
        [drive |-> DriveOf(cam.tdrives[((k - 1) \div Len(cam.wdrives)) + 1]),
         gb |-> TilesGb(cam)]]

LocalEntries ==
    Flatten([c \in 1 .. Len(disk_cameras) |-> LocalEntriesOf(disk_cameras[c])])

ExternalEntries ==
    Flatten([c \in 1 .. Len(disk_cameras) |->
                ExternalEntriesOf(disk_cameras[c])])

\* The keys of the dictionary drives, in insertion order.
RECURSIVE DriveOrder(_)
DriveOrder(entries) ==
    IF entries = << >> THEN << >>
    ELSE <<Head(entries).drive>> \o
         DriveOrder(SelectSeq(Tail(entries),
                              LAMBDA e : e.drive # Head(entries).drive))

\* required_size_gb = sum(drives[drive])
RequiredSizeGb(entries, drive) ==
    SumSeq([i \in 1 .. Len(entries) |->
               IF entries[i].drive = drive THEN entries[i].gb ELSE 0])

\* data_size_gb when the loop over the drives runs: the value the last
\* pass of the loops above left in it.
DataSizeGb(entries) == entries[Len(entries)].gb

\* The comparisons of the loop over the drives, up to the one that raises.
RECURSIVE Comparisons(_, _)
Comparisons(entries, order) ==
    IF order = << >> THEN << >>
    ELSE LET drive == Head(order)
             this == [drive |-> drive,
                      data_size_gb |-> DataSizeGb(entries),
                      required_size_gb |-> RequiredSizeGb(entries, drive),
                      free_size_gb |-> free[drive]]
         IN  IF this.data_size_gb >= this.free_size_gb THEN <<this>>
             ELSE <<this>> \o Comparisons(entries, Tail(order))

DiskOutcome(comparisons) ==
    IF \E i \in 1 .. Len(comparisons) :
           comparisons[i].data_size_gb >= comparisons[i].free_size_gb
    THEN "raise" ELSE "ok"

DiskInit ==
    /\ platform_system \in {"Windows", "Linux"}
    /\ disk_cameras \in DiskCameraLists
    /\ tile_steps \in TileStepLists
    /\ free \in [{ DriveOf(l) : l \in DriveLetters } -> FreeChoices]
    /\ diskMode = "none"
    /\ diskResult = "idle"
    /\ compared = << >>
    /\ device_named_transfers \in
          IF \E c \in 1 .. Len(disk_cameras) : disk_cameras[c].tdrives # << >>
          THEN {FALSE} ELSE BOOLEAN
    /\ StreamIdle
    /\ SetterIdle
    /\ VerifyIdle
    /\ RunIdle
    /\ CalibIdle
    /\ WriterIdle
    /\ SingletonIdle
    /\ TransferIdle
    /\ GeneratorIdle
    /\ ProjectionIdle

\* check_local_acquisition_disk_space()
CheckLocalAcquisitionDiskSpace ==
    /\ diskResult = "idle"
    /\ diskMode' = "local"
    /\ compared' = Comparisons(LocalEntries, DriveOrder(LocalEntries))
    /\ diskResult' = DiskOutcome(compared')
    /\ UNCHANGED << platform_system, disk_cameras, tile_steps, free,
                    device_named_transfers,
                    streamVars, setterVars, verifyVars, runVars, calibVars,
                    writerVars, singletonVars, transferVars, generatorVars,
                    projectionVars >>

\* hasattr(self, "transfers"): the attribute exists once some device has a
\* transfer operation, or when __init__ met a device of that name
\* (setattr(self, operation_type, dict()) with the device's name).
HasTransfersAttribute ==
    \/ device_named_transfers
    \/ \E c \in 1 .. Len(disk_cameras) : disk_cameras[c].tdrives # << >>

\* `if self.transfers:`, once the attribute exists: a dictionary with an
\* entry is true, the empty dictionary false.
TransfersTruthy ==
    \E c \in 1 .. Len(disk_cameras) : disk_cameras[c].tdrives # << >>

\* The first camera, in the order of the loop, with no entry in
\* self.transfers, 0 if every camera has one.
FirstCameraWithoutTransfers ==
    LET missing == { c \in 1 .. Len(disk_cameras) :
                        disk_cameras[c].tdrives = << >> }
    IN  IF missing = {} THEN 0
        ELSE CHOOSE c \in missing : \A d \in missing : c <= d

\* check_external_acquisition_disk_space()
CheckExternalAcquisitionDiskSpace ==
    /\ diskResult = "idle"
    /\ diskMode' = "external"
    /\ IF ~HasTransfersAttribute
       THEN diskResult' = "raise_attribute" /\ compared' = << >>
       ELSE IF ~TransfersTruthy
       THEN diskResult' = "raise_no_transfers" /\ compared' = << >>
       ELSE IF FirstCameraWithoutTransfers # 0
       THEN diskResult' = "raise_key" /\ compared' = << >>
       ELSE /\ compared' =
                 Comparisons(ExternalEntries, DriveOrder(ExternalEntries))
            /\ diskResult' = DiskOutcome(compared')
    /\ UNCHANGED << platform_system, disk_cameras, tile_steps, free,
                    device_named_transfers,
                    streamVars, setterVars, verifyVars, runVars, calibVars,
                    writerVars, singletonVars, transferVars, generatorVars,
                    projectionVars >>

DiskNext ==
    \/ CheckLocalAcquisitionDiskSpace
    \/ CheckExternalAcquisitionDiskSpace

DiskSpec == DiskInit /\ [][DiskNext]_vars

\* ----------------------------------------- the writers' setters and prepare

\* Number of setter calls, and of prepare() calls, of a modelled run.
MaxSetterCalls == 2

MaxPrepares == 2

\* The fields with a setter in the writer's class.
WriterFields(wk) ==
    IF wk = "zarr"
    THEN {"chunk_size_x_px", "chunk_size_y_px", "chunk_size_z_px",
          "frame_count_px", "multiscale", "version", "compression",
          "filename"}
    ELSE {"x_voxel_size", "y_voxel_size", "z_voxel_size", "x_pos_mm",
          "y_pos_mm", "z_pos_mm", "frame_count", "column_count",
          "row_count", "compression", "data_type", "path", "filename",
          "channel", "color"}

\* VERSIONS.keys()
VERSIONS == {"v2", "v3"}

\* Directories of the file system, for os.path.isdir.
ExistingDirectories == {"dirA", "dirB"}

\* Color strings are sequences of characters; "LF" is the line feed.
HexDigits == {"0", "f", "F"}

ColorInputs ==
    { <<"#", "f", "f", "f">>, <<"#", "0", "0", "F", "F", "0", "0">>,
      <<"r", "e", "d">>, <<"#", "f", "f", "f", "f">>, <<"#", "f", "f", "g">>,
      <<"#", "f", "f", "f", "LF">> }

\* re.search(r'^#(?:[0-9a-fA-F]{3}){1,2}$', color): "#" and three or six
\* hexadecimal digits, up to the end of the string or up to a line feed
\* that ends the string.
ColorMatches(color) ==
    LET n == Len(color)
        body == IF n > 0 /\ color[n] = "LF" THEN SubSeq(color, 1, n - 1)
                ELSE color
    IN  /\ Len(body) \in {4, 7}
        /\ body[1] = "#"
        /\ \A i \in 2 .. Len(body) : body[i] \in HexDigits

\* The multiscale values are written as Python writes them: True and False
\* are the two objects of type bool.
IsBool(value) == value \in {"True", "False"}

\* The arguments the setter of a field is called with.
SetterInputs(wk, field) ==
    CASE field \in {"chunk_size_x_px", "chunk_size_y_px", "chunk_size_z_px"}
           -> {64, 128}
      [] field \in {"frame_count_px", "frame_count"} -> {64, 100}
      [] field = "multiscale" -> {"True", "False", "1", "yes"}
      [] field = "version" -> {"v2", "v3", "v1"}
      [] field = "compression" -> DOMAIN COMPRESSIONS(wk) \cup {"gzip"}
      [] field = "filename"
           -> { <<"tile_0">>, <<"tile_0", ".zarr">>, <<"tile_0", ".ims">> }
      [] field \in {"x_voxel_size", "y_voxel_size", "z_voxel_size",
                    "x_pos_mm", "y_pos_mm", "z_pos_mm"} -> {1, 2}
      [] field \in {"column_count", "row_count"} -> {2, 3}
      [] field = "data_type" -> {"uint8", "uint16"}
      [] field = "path" -> ExistingDirectories \cup {"missing"}
      [] field = "channel" -> {"488", "561"}
      [] field = "color" -> ColorInputs

\* Whether the setter stores the value; it raises ValueError otherwise.
SetterAccepts(wk, field, value) ==
    CASE field = "multiscale" -> IsBool(value)
      [] field = "version" -> value \in VERSIONS
      [] field = "compression" -> value \in DOMAIN COMPRESSIONS(wk)
      [] field = "path" -> value \in ExistingDirectories
      [] field = "color" -> ColorMatches(value)
      [] OTHER -> TRUE

\* What an accepting setter stores for the value.
StoredValue(wk, field, value) ==
    CASE field = "frame_count_px" -> ZarrFrameCountSetter(value)
      [] field = "frame_count" -> ImarisFrameCountSetter(value)
      [] field = "compression" -> COMPRESSIONS(wk)[value]
      [] field = "filename" -> FilenameSetter(wk, value)
      [] field \in {"x_pos_mm", "y_pos_mm", "z_pos_mm"} -> value * 1000
      [] OTHER -> value

\* An assignment that also clears the writer's other fields.
AssignFieldResetting(fs, field, stored) ==
    [g \in DOMAIN fs |-> IF g = field THEN <<stored>> ELSE << >>]

\* self._<field> = stored
AssignField(fs, field, stored) == [fs EXCEPT ![field] = <<stored>>]

\* The fields as the constructor leaves them: the codec of "none", for the
\* imaris writer also the data type and the path it was given, and None.
ConstructedFields(wk) ==
    [f \in WriterFields(wk) |->
        CASE f = "compression" -> <<COMPRESSIONS(wk)["none"]>>
          [] f = "data_type" -> <<"uint8">>
          [] f = "path" -> <<"dirA">>
          [] OTHER -> << >>]

\* A writer after one valid assignment to every field.
ConfiguredFields(wk) ==
    [f \in WriterFields(wk) |->
        <<StoredValue(wk, f,
             CHOOSE v \in SetterInputs(wk, f) : SetterAccepts(wk, f, v))>>]

WriterInit ==
    /\ writer_class \in WriterKinds
    /\ fields \in {ConstructedFields(writer_class),
                   ConfiguredFields(writer_class)}
    /\ lastCall = NoCall
    /\ calls = 0
    /\ shm_arrays = {}
    /\ processes = {}
    /\ shm_ref = 0
    /\ process_ref = 0
    /\ prepares = 0
    /\ StreamIdle
    /\ SetterIdle
    /\ VerifyIdle
    /\ RunIdle
    /\ DiskIdle
    /\ CalibIdle
    /\ SingletonIdle
    /\ TransferIdle
    /\ GeneratorIdle
    /\ ProjectionIdle

\* writer.<field> = value, for a value the setter stores
SetField ==
    /\ calls < MaxSetterCalls
    /\ \E field \in WriterFields(writer_class) :
         \E value \in SetterInputs(writer_class, field) :
            /\ SetterAccepts(writer_class, field, value)
            /\ fields' = AssignField(fields, field,
                              StoredValue(writer_class, field, value))
            /\ lastCall' = [field |-> field, value |-> value,
                            raised |-> FALSE]
    /\ calls' = calls + 1
    /\ UNCHANGED << writer_class, shm_arrays, processes, shm_ref,
                    process_ref, prepares, streamVars, setterVars,
                    verifyVars, runVars, diskVars, calibVars, singletonVars,
                    transferVars, generatorVars, projectionVars >>

\* writer.<field> = value, for a value the setter raises ValueError for
SetFieldRaises ==
    /\ calls < MaxSetterCalls
    /\ \E field \in WriterFields(writer_class) :
         \E value \in SetterInputs(writer_class, field) :
            /\ ~SetterAccepts(writer_class, field, value)
            /\ lastCall' = [field |-> field, value |-> value,
                            raised |-> TRUE]
    /\ calls' = calls + 1
    /\ UNCHANGED << writer_class, fields, shm_arrays, processes, shm_ref,
                    process_ref, prepares, streamVars, setterVars,
                    verifyVars, runVars, diskVars, calibVars, singletonVars,
                    transferVars, generatorVars, projectionVars >>

\* A memory management that never releases an object.
KeepAll(objects, referenced) == objects

\* The objects left once the attribute names another object: one that
\* nothing refers to any more is released.
StillReferenced(objects, referenced) == objects \cap referenced

\* Whether prepare() passes its shape and size computation: np.prod over
\* the chunk shape raises when the row or column count is None.
GeometryKnown ==
    writer_class = "imaris" =>
        fields["row_count"] # << >> /\ fields["column_count"] # << >>

\* writer.prepare(): a new Array for _shm_name and a new Process. The zarr
\* writer creates the Process after the size computation, the imaris
\* writer before the Array; the zarr writer's row and column count belong
\* to its base class and are known or not.
Prepare ==
    /\ prepares < MaxPrepares
    /\ prepares' = prepares + 1
    /\ shm_ref' = prepares + 1
    /\ shm_arrays' = StillReferenced(shm_arrays \cup {prepares + 1},
                                     {prepares + 1})
    /\ \E base_geometry_known \in BOOLEAN :
         LET created == \/ writer_class = "imaris"
                        \/ GeometryKnown /\ base_geometry_known
         IN  /\ process_ref' = IF created THEN prepares + 1 ELSE process_ref
             /\ processes' =
                   IF created
                   THEN StillReferenced(processes \cup {prepares + 1},
                                        {prepares + 1})
                   ELSE processes
    /\ UNCHANGED << writer_class, fields, lastCall, calls, streamVars,
                    setterVars, verifyVars, runVars, diskVars, calibVars,
                    singletonVars, transferVars, generatorVars,
                    projectionVars >>

WriterNext ==
    \/ SetField
    \/ SetFieldRaises
    \/ Prepare

WriterSpec == WriterInit /\ [][WriterNext]_vars

\* ------------------------------------------------- the Singleton metaclass

otherVarsOfSingleton ==
    << streamVars, setterVars, verifyVars, runVars, diskVars, calibVars,
       writerVars, transferVars, generatorVars, projectionVars >>

SingletonInit ==
    /\ SingletonIdle
    /\ StreamIdle
    /\ SetterIdle
    /\ VerifyIdle
    /\ RunIdle
    /\ DiskIdle
    /\ CalibIdle
    /\ WriterIdle
    /\ TransferIdle
    /\ GeneratorIdle
    /\ ProjectionIdle

\* a thread calls the class: TigerControllerSingleton(com_port=port)
SingletonCall(t) ==
    /\ callPc[t] = "idle"
    /\ callCount < MaxCalls
    /\ callCount' = callCount + 1
    /\ callPc' = [callPc EXCEPT ![t] = "acquire"]
    /\ UNCHANGED << instances, lock, instance, returned, constructorRuns,
                    constructorOk, otherVarsOfSingleton, transferVars,
                    generatorVars, projectionVars >>

\* a metaclass whose check and construction are not under the lock
LockIgnored == TRUE

\* Lock.acquire() goes through only when no thread holds the lock
LockFree == lock = 0

\* with cls._lock: -- entry
SingletonAcquire(t) ==
    /\ callPc[t] = "acquire"
    /\ LockFree
    /\ lock' = t
    /\ callPc' = [callPc EXCEPT ![t] = "check"]
    /\ UNCHANGED << instances, instance, returned, constructorRuns,
                    constructorOk, callCount, otherVarsOfSingleton,
                    transferVars, generatorVars, projectionVars >>

\* if cls not in cls._instances:
SingletonCheck(t) ==
    /\ callPc[t] = "check"
    /\ callPc' = [callPc EXCEPT
                     ![t] = IF instances = << >> THEN "construct"
                            ELSE "release"]
    /\ UNCHANGED << instances, lock, instance, returned, constructorRuns,
                    constructorOk, callCount, otherVarsOfSingleton,
                    transferVars, generatorVars, projectionVars >>

\* instance = super().__call__(*args, **kwargs): the constructor runs and
\* returns a new object
SingletonConstruct(t) ==
    /\ callPc[t] = "construct"
    /\ constructorRuns' = constructorRuns + 1
    /\ constructorOk' = constructorOk + 1
    /\ instance' = [instance EXCEPT ![t] = constructorRuns + 1]
    /\ callPc' = [callPc EXCEPT ![t] = "store"]
    /\ UNCHANGED << instances, lock, returned, callCount,
                    otherVarsOfSingleton, transferVars, generatorVars,
                    projectionVars >>

\* the constructor raises (TigerController cannot open the port): the with
\* statement releases the lock and the exception leaves __call__
SingletonConstructRaises(t) ==
    /\ callPc[t] = "construct"
    /\ constructorRuns' = constructorRuns + 1
    /\ lock' = IF lock = t THEN 0 ELSE lock
    /\ callPc' = [callPc EXCEPT ![t] = "idle"]
    /\ UNCHANGED << instances, instance, returned, constructorOk, callCount,
                    otherVarsOfSingleton, transferVars, generatorVars,
                    projectionVars >>

\* cls._instances[cls] = instance
SingletonStore(t) ==
    /\ callPc[t] = "store"
    /\ instances' = << instance[t] >>
    /\ callPc' = [callPc EXCEPT ![t] = "release"]
    /\ UNCHANGED << lock, instance, returned, constructorRuns,
                    constructorOk, callCount, otherVarsOfSingleton,
                    transferVars, generatorVars, projectionVars >>

\* with cls._lock: -- exit
SingletonRelease(t) ==
    /\ callPc[t] = "release"
    /\ lock' = IF lock = t THEN 0 ELSE lock
    /\ callPc' = [callPc EXCEPT ![t] = "return"]
    /\ UNCHANGED << instances, instance, returned, constructorRuns,
                    constructorOk, callCount, otherVarsOfSingleton,
                    transferVars, generatorVars, projectionVars >>

\* return cls._instances[cls]
SingletonReturn(t) ==
    /\ callPc[t] = "return"
    /\ returned' = [returned EXCEPT ![t] = @ \cup {instances[1]}]
    /\ instance' = [instance EXCEPT ![t] = 0]
    /\ callPc' = [callPc EXCEPT ![t] = "idle"]
    /\ UNCHANGED << instances, lock, constructorRuns, constructorOk,
                    callCount, otherVarsOfSingleton, transferVars,
                    generatorVars, projectionVars >>

SingletonNext ==
    \/ \E t \in Threads : SingletonCall(t)
    \/ \E t \in Threads : SingletonAcquire(t)
    \/ \E t \in Threads : SingletonCheck(t)
    \/ \E t \in Threads : SingletonConstruct(t)
    \/ \E t \in Threads : SingletonConstructRaises(t)
    \/ \E t \in Threads : SingletonStore(t)
    \/ \E t \in Threads : SingletonRelease(t)
    \/ \E t \in Threads : SingletonReturn(t)

SingletonSpec == SingletonInit /\ [][SingletonNext]_vars

\* ------------------------------------------------------ the rsync transfer

otherVarsOfTransfer ==
    << streamVars, setterVars, verifyVars, runVars, diskVars, calibVars,
       writerVars, singletonVars, generatorVars, projectionVars >>

\* A file no larger than 1024 MB is awaited with subprocess.wait(); a
\* larger one is followed through rsync's progress log.
FileSizes == {"small", "large"}

\* sorted(file_list.items(), key = size): the small files come first
SortedFileLists ==
    { l \in UNION { [1 .. n -> FileSizes] : n \in 0 .. MaxFiles } :
         \A i, j \in DOMAIN l :
            (i < j /\ l[i] = "large") => l[j] = "large" }

\* start(): the thread enters _run with delete_list and file_list built
\* from the directory listing
TransferInit ==
    /\ sorted_file_list \in SortedFileLists
    /\ file_number = 1
    /\ subprocess = [i \in DOMAIN sorted_file_list |-> "none"]
    /\ log_file = [i \in DOMAIN sorted_file_list |-> "empty"]
    /\ deleted = {}
    /\ deletedWhen = [i \in DOMAIN sorted_file_list |-> {}]
    /\ transferPc = "loop"
    /\ StreamIdle
    /\ SetterIdle
    /\ VerifyIdle
    /\ RunIdle
    /\ DiskIdle
    /\ CalibIdle
    /\ WriterIdle
    /\ SingletonIdle
    /\ GeneratorIdle
    /\ ProjectionIdle

\* for file_path, file_size_mb in sorted_file_list.items(): ...
\* subprocess = Popen(cmd_with_args, stdout=self._log_file)
TransferPopen ==
    /\ transferPc = "loop"
    /\ file_number <= Len(sorted_file_list)
    /\ subprocess' = [subprocess EXCEPT ![file_number] = "running"]
    /\ transferPc' = IF sorted_file_list[file_number] = "large"
                     THEN "monitor" ELSE "wait"
    /\ UNCHANGED << sorted_file_list, file_number, log_file, deleted,
                    deletedWhen, otherVarsOfTransfer, generatorVars,
                    projectionVars >>

\* rsync writes a progress line short of 100 %
RsyncReportsProgress(i) ==
    /\ i \in DOMAIN sorted_file_list
    /\ subprocess[i] = "running"
    /\ log_file[i] = "empty"
    /\ log_file' = [log_file EXCEPT ![i] = "partial"]
    /\ UNCHANGED << sorted_file_list, file_number, subprocess, deleted,
                    deletedWhen, transferPc, otherVarsOfTransfer,
                    generatorVars, projectionVars >>

\* rsync writes the 100 % line: the data is copied, the process has yet to
\* finish the file and exit
RsyncReportsComplete(i) ==
    /\ i \in DOMAIN sorted_file_list
    /\ subprocess[i] = "running"
    /\ log_file[i] # "complete"
    /\ log_file' = [log_file EXCEPT ![i] = "complete"]
    /\ UNCHANGED << sorted_file_list, file_number, subprocess, deleted,
                    deletedWhen, transferPc, otherVarsOfTransfer,
                    generatorVars, projectionVars >>

\* rsync exits with status 0
RsyncSucceeds(i) ==
    /\ i \in DOMAIN sorted_file_list
    /\ subprocess[i] = "running"
    /\ log_file[i] = "complete"
    /\ subprocess' = [subprocess EXCEPT ![i] = "succeeded"]
    /\ UNCHANGED << sorted_file_list, file_number, log_file, deleted,
                    deletedWhen, transferPc, otherVarsOfTransfer,
                    generatorVars, projectionVars >>

\* rsync exits with a non-zero status (destination full or unreachable)
RsyncFails(i) ==
    /\ i \in DOMAIN sorted_file_list
    /\ subprocess[i] = "running"
    /\ log_file[i] # "complete"
    /\ subprocess' = [subprocess EXCEPT ![i] = "failed"]
    /\ UNCHANGED << sorted_file_list, file_number, log_file, deleted,
                    deletedWhen, transferPc, otherVarsOfTransfer,
                    generatorVars, projectionVars >>

\* subprocess.wait() returns once the subprocess has exited; the exit
\* status it returns is not looked at
Exited(i) == subprocess[i] \in {"succeeded", "failed"}

\* else: subprocess.wait()
TransferWait ==
    /\ transferPc = "wait"
    /\ Exited(file_number)
    /\ transferPc' = "remove_log"
    /\ UNCHANGED << sorted_file_list, file_number, subprocess, log_file,
                    deleted, deletedWhen, otherVarsOfTransfer, generatorVars,
                    projectionVars >>

\* while file_progress < 100: the last line of the log is read; an empty
\* log makes readlines()[-1] raise IndexError, which ends the thread
TransferMonitor ==
    /\ transferPc = "monitor"
    /\ log_file[file_number] # "partial"
    /\ transferPc' = IF log_file[file_number] = "complete"
                     THEN "remove_log" ELSE "raised"
    /\ UNCHANGED << sorted_file_list, file_number, subprocess, log_file,
                    deleted, deletedWhen, otherVarsOfTransfer, generatorVars,
                    projectionVars >>

\* os.remove(log_path); total_transferred_mb += file_size_mb; next file
TransferRemoveLog ==
    /\ transferPc = "remove_log"
    /\ file_number' = file_number + 1
    /\ transferPc' = "loop"
    /\ UNCHANGED << sorted_file_list, subprocess, log_file, deleted,
                    deletedWhen, otherVarsOfTransfer, generatorVars,
                    projectionVars >>

\* the transfer loop is exhausted
TransferLoopDone ==
    /\ transferPc = "loop"
    /\ file_number > Len(sorted_file_list)
    /\ transferPc' = "delete"
    /\ UNCHANGED << sorted_file_list, file_number, subprocess, log_file,
                    deleted, deletedWhen, otherVarsOfTransfer, generatorVars,
                    projectionVars >>

\* for f in delete_list: shutil.rmtree / os.remove
TransferDelete ==
    /\ transferPc = "delete"
    /\ \E f \in DOMAIN sorted_file_list \ deleted :
          /\ \A g \in DOMAIN sorted_file_list \ deleted : f <= g
          /\ deleted' = deleted \cup {f}
          /\ deletedWhen' =
                [deletedWhen EXCEPT
                    ![f] = { subprocess[g] : g \in DOMAIN sorted_file_list }]
    /\ UNCHANGED << sorted_file_list, file_number, subprocess, log_file,
                    transferPc, otherVarsOfTransfer, generatorVars,
                    projectionVars >>

\* subprocess.kill() on the last subprocess started; with no file
\* transferred the name is unbound and the call raises
TransferKill ==
    /\ transferPc = "delete"
    /\ deleted = DOMAIN sorted_file_list
    /\ IF sorted_file_list = << >>
       THEN subprocess' = subprocess /\ transferPc' = "raised"
       ELSE /\ subprocess' =
                  [subprocess EXCEPT
                      ![Len(sorted_file_list)] =
                          IF @ = "running" THEN "killed" ELSE @]
            /\ transferPc' = "done"
    /\ UNCHANGED << sorted_file_list, file_number, log_file, deleted,
                    deletedWhen, otherVarsOfTransfer, generatorVars,
                    projectionVars >>

TransferNext ==
    \/ TransferPopen
    \/ \E i \in 1 .. MaxFiles : RsyncReportsProgress(i)
    \/ \E i \in 1 .. MaxFiles : RsyncReportsComplete(i)
    \/ \E i \in 1 .. MaxFiles : RsyncSucceeds(i)
    \/ \E i \in 1 .. MaxFiles : RsyncFails(i)
    \/ TransferWait
    \/ TransferMonitor
    \/ TransferRemoveLog
    \/ TransferLoopDone
    \/ TransferDelete
    \/ TransferKill

TransferSpec == TransferInit /\ [][TransferNext]_vars

\* ------------------------------------- the simulated camera's frame generator

otherVarsOfGenerator ==
    << streamVars, setterVars, verifyVars, runVars, diskVars, calibVars,
       writerVars, singletonVars, transferVars, projectionVars >>

\* start(): _run begins with the values __init__ gave the shared objects;
\* frame_count None is replaced by 1
GeneratorInit ==
    /\ generator_frame_count \in 1 .. MaxGeneratorFrames
    /\ buffer = << >>
    /\ frame_counter = 0
    /\ dropped_frames = 0
    /\ enqueued = 0
    /\ frame_i = 1
    /\ qsize = 0
    /\ generatorPc = "test"
    /\ StreamIdle
    /\ SetterIdle
    /\ VerifyIdle
    /\ RunIdle
    /\ DiskIdle
    /\ CalibIdle
    /\ WriterIdle
    /\ SingletonIdle
    /\ TransferIdle
    /\ ProjectionIdle

\* a test that lets one frame too many in
BufferHasRoomInclusive(n) == n <= BUFFER_SIZE_FRAMES

\* if buffer.qsize() < BUFFER_SIZE_FRAMES:
BufferHasRoom(n) == n < BUFFER_SIZE_FRAMES

\* while i <= frame_count: a frame is generated, and the queue's size read
\* and tested
GeneratorTest ==
    /\ generatorPc = "test"
    /\ frame_i <= generator_frame_count
    /\ qsize' = Len(buffer)
    /\ generatorPc' = IF BufferHasRoom(Len(buffer)) THEN "put" ELSE "drop"
    /\ UNCHANGED << generator_frame_count, buffer, frame_counter,
                    dropped_frames, enqueued, frame_i,
                    otherVarsOfGenerator, projectionVars >>

\* buffer.put(image)
GeneratorPut ==
    /\ generatorPc = "put"
    /\ buffer' = Append(buffer, frame_i)
    /\ enqueued' = enqueued + 1
    /\ generatorPc' = "count"
    /\ UNCHANGED << generator_frame_count, frame_counter, dropped_frames,
                    frame_i, qsize, otherVarsOfGenerator, projectionVars >>

\* dropped_frames.value += 1
GeneratorDrop ==
    /\ generatorPc = "drop"
    /\ dropped_frames' = dropped_frames + 1
    /\ generatorPc' = "count"
    /\ UNCHANGED << generator_frame_count, buffer, frame_counter, enqueued,
                    frame_i, qsize, otherVarsOfGenerator, projectionVars >>

\* frame.value += 1; i = i + 1
GeneratorCount ==
    /\ generatorPc = "count"
    /\ frame_counter' = frame_counter + 1
    /\ frame_i' = frame_i + 1
    /\ generatorPc' = "test"
    /\ UNCHANGED << generator_frame_count, buffer, dropped_frames, enqueued,
                    qsize, otherVarsOfGenerator, projectionVars >>

\* the loop ends and with it the process
GeneratorExit ==
    /\ generatorPc = "test"
    /\ frame_i > generator_frame_count
    /\ generatorPc' = "done"
    /\ UNCHANGED << generator_frame_count, buffer, frame_counter,
                    dropped_frames, enqueued, frame_i, qsize,
                    otherVarsOfGenerator, projectionVars >>

\* get_latest_frame() in a consumer: once the queue is not empty, get()
GetLatestFrame ==
    /\ generatorPc # "idle"
    /\ buffer # << >>
    /\ buffer' = Tail(buffer)
    /\ UNCHANGED << generator_frame_count, frame_counter, dropped_frames,
                    enqueued, frame_i, qsize, generatorPc,
                    otherVarsOfGenerator, projectionVars >>

GeneratorNext ==
    \/ GeneratorTest
    \/ GeneratorPut
    \/ GeneratorDrop
    \/ GeneratorCount
    \/ GeneratorExit
    \/ GetLatestFrame

GeneratorSpec == GeneratorInit /\ [][GeneratorNext]_vars

\* ------------------------------------------------ the max projection worker

otherVarsOfProjection ==
    << streamVars, setterVars, verifyVars, runVars, diskVars, calibVars,
       writerVars, singletonVars, transferVars, generatorVars >>

\* start(): _run begins with new_image clear and its locals at 0
ProjectionInit ==
    /\ projection_frame_count \in 0 .. MaxProjectionFrames
    /\ z_projection_count \in 1 .. MaxZProjection
    /\ new_image = FALSE
    /\ latest_img = -1
    /\ signalled = 0
    /\ mip_frame_index = 0
    /\ mip_start_index = 0
    /\ mip_xy = {}
    /\ folded = << >>
    /\ xy_written = << >>
    /\ projectionPc = "loop"
    /\ StreamIdle
    /\ SetterIdle
    /\ VerifyIdle
    /\ RunIdle
    /\ DiskIdle
    /\ CalibIdle
    /\ WriterIdle
    /\ SingletonIdle
    /\ TransferIdle
    /\ GeneratorIdle

\* The producer of the frames: while new_image is clear it copies the next
\* frame of the stack into the shared image and sets new_image.
ProjectionSignal ==
    /\ projectionPc # "idle"
    /\ ~new_image
    /\ signalled < projection_frame_count
    /\ latest_img' = signalled
    /\ signalled' = signalled + 1
    /\ new_image' = TRUE
    /\ UNCHANGED << projection_frame_count, z_projection_count,
                    mip_frame_index, mip_start_index, mip_xy, folded,
                    xy_written, projectionPc, otherVarsOfProjection >>

\* while frame_index < frame_count: if self.new_image.is_set():
ProjectionTest ==
    /\ projectionPc = "loop"
    /\ mip_frame_index < projection_frame_count
    /\ new_image
    /\ projectionPc' = "fold"
    /\ UNCHANGED << projection_frame_count, z_projection_count, new_image,
                    latest_img, signalled, mip_frame_index, mip_start_index,
                    mip_xy, folded, xy_written, otherVarsOfProjection >>

\* the end test without its end-of-stack half
ProjectionCompleteNoTail(frame) ==
    frame % z_projection_count = z_projection_count - 1

\* if chunk_index == z_projection_count - 1 or frame_index == frame_count - 1
ProjectionComplete(frame) ==
    \/ frame % z_projection_count = z_projection_count - 1
    \/ frame = projection_frame_count - 1

\* the shared image is folded into mip_xy (and the yz and xz columns of
\* this frame); a complete xy projection is written and mip_xy reset;
\* frame_index += 1
ProjectionFold ==
    /\ projectionPc = "fold"
    /\ folded' = Append(folded, latest_img)
    /\ IF ProjectionComplete(mip_frame_index)
       THEN /\ xy_written' =
                  Append(xy_written,
                         [start |-> mip_start_index,
                          end |-> mip_frame_index + 1,
                          frames |-> mip_xy \cup {latest_img}])
            /\ mip_xy' = {}
            /\ mip_start_index' = mip_frame_index + 1
       ELSE /\ xy_written' = xy_written
            /\ mip_xy' = mip_xy \cup {latest_img}
            /\ mip_start_index' = mip_start_index
    /\ mip_frame_index' = mip_frame_index + 1
    /\ projectionPc' = "clear"
    /\ UNCHANGED << projection_frame_count, z_projection_count, new_image,
                    latest_img, signalled, otherVarsOfProjection >>

\* self.new_image.clear()
ProjectionClear ==
    /\ projectionPc = "clear"
    /\ new_image' = FALSE
    /\ projectionPc' = "loop"
    /\ UNCHANGED << projection_frame_count, z_projection_count, latest_img,
                    signalled, mip_frame_index, mip_start_index, mip_xy,
                    folded, xy_written, otherVarsOfProjection >>

\* the loop ends; the yz and xz projections are written and _run returns
ProjectionFinish ==
    /\ projectionPc = "loop"
    /\ mip_frame_index >= projection_frame_count
    /\ projectionPc' = "done"
    /\ UNCHANGED << projection_frame_count, z_projection_count, new_image,
                    latest_img, signalled, mip_frame_index, mip_start_index,
                    mip_xy, folded, xy_written, otherVarsOfProjection >>

ProjectionWorker ==
    \/ ProjectionTest
    \/ ProjectionFold
    \/ ProjectionClear
    \/ ProjectionFinish

ProjectionNext ==
    \/ ProjectionSignal
    \/ ProjectionTest
    \/ ProjectionFold
    \/ ProjectionClear
    \/ ProjectionFinish

\* The worker is a process of its own and the producer's acquisition loop
\* keeps running: each takes its step when it can.
ProjectionSpec ==
    /\ ProjectionInit
    /\ [][ProjectionNext]_vars
    /\ WF_vars(ProjectionWorker)
    /\ WF_vars(ProjectionSignal)

\* =================================================================== claims

\* Smallest n with n * CHUNK_COUNT_PX >= fc, stated without the code's
\* rounding helpers.
IsChunkCountOf(n, fc) ==
    /\ n * CHUNK_COUNT_PX >= fc
    /\ (n - 1) * CHUNK_COUNT_PX < fc

\* C1: in every interleaving of producer and worker, the worker is never
\* attached to the region that is in the producer's write role (the region
\* the producer stores frames into).
Thm_C1 == attached # "" => attached # write_buf

\* C1 witness: the worker is attached to one region while the producer is
\* in the middle of filling the other with the next chunk.
Wit_C1 ==
    /\ attached # ""
    /\ pcW = "copy"
    /\ pcP = "fill"
    /\ frame_index > 0
    /\ chunkP >= 1

\* C2: the producer toggles the buffers, and publishes a region, only in a
\* step taken while done_reading is set, and at each publication every
\* region published before has been consumed by the worker.
Thm_C2 ==
    [][ /\ (write_buf' # write_buf => done_reading)
        /\ (Len(published') > Len(published)
              => done_reading /\ Len(backendLog) = Len(published)) ]_vars

\* C2 witness: a second region has been published and handed over.
Wit_C2 == Len(published) = 2 /\ ~done_reading /\ Len(backendLog) = 1

\* C3: the k-th call the backend receives carries chunk index k - 1 and
\* consumes the region, with the contents, of the producer's k-th
\* publication; a worker that has finished has made one call per chunk.
Thm_C3 ==
    /\ \A k \in 1 .. Len(backendLog) :
          /\ backendLog[k].index = k - 1
          /\ k <= Len(published)
          /\ backendLog[k].region = published[k].region
          /\ backendLog[k].frames = published[k].frames
    /\ pcW = "finished" => Len(backendLog) = Len(published)

\* C3 witness: the backend has received three chunks.
Wit_C3 == Len(backendLog) = 3 /\ kind = "imaris"

\* C4: a worker that has run to completion has made ceil(frame_count / 64)
\* backend encode calls.
Thm_C4 == pcW = "finished" => IsChunkCountOf(Len(backendLog), requested)

\* C4 witness: 65 frames, two calls, worker finished.
Wit_C4 ==
    /\ pcW = "finished"
    /\ requested = CHUNK_COUNT_PX + 1
    /\ Len(backendLog) = 2

Thm_C7 ==
    (finalized \/ pcW = "finish")
      => /\ IsChunkCountOf(Len(backendLog), requested)
         /\ progress = Len(backendLog)

\* C7 witness: the imaris worker has finalized a three-chunk container.
Wit_C7 ==
    /\ finalized
    /\ kind = "imaris"
    /\ Len(backendLog) = 3

\* C8 as stated: once an encode call has raised on chunk k the orchestrator
\* neither carries on past wait_to_finish as after a normal run nor is left
\* waiting on a release flag that nobody will set.
CE_C8 ==
    faultChunk # -1
      => /\ pcP \notin {"stop", "measure", "delete", "done", "raised"}
         /\ ~(pcP = "wait" /\ ~done_reading)

\* C9: wait_to_finish never returns while the worker is Running or
\* Draining, and under fair scheduling, once the producer has handed off
\* every chunk and the backend's progress has reached 100%, the worker
\* reaches Finished and the producer gets past wait_to_finish.
Thm_C9 ==
    /\ [](pcP \in {"stop", "measure", "delete", "done", "raised"}
            => WorkerState \notin {"Idle", "Prepared", "Running", "Draining"})
    /\ (chunkP = ProducerChunks /\ progress >= ProducerChunks)
          ~> (pcW = "finished" /\ pcP \in {"done", "raised"})

\* C9 witness: the imaris worker has drained and finished and the producer
\* is past wait_to_finish.
Wit_C9 ==
    /\ pcP = "done"
    /\ pcW = "finished"
    /\ kind = "imaris"
    /\ finalized
    /\ chunkP = ProducerChunks

CE_C10 ==
    verifyResult # "idle" =>
      /\ (\E i \in 1 .. Len(tiles) : Elems(tiles[i].axes) # Elems(stage_axes))
            => verifyResult # "ok"
      /\ (\A i \in 1 .. Len(tiles) : Elems(tiles[i].axes) = Elems(stage_axes))
            => verifyResult # "raise_axes"

\* C11: once verification has run, a plan with a tile whose channel is not
\* one of the instrument's channels has made it raise, and a plan whose
\* tiles all name configured channels has not made it raise the channel
\* error.
Thm_C11 ==
    verifyResult # "idle" =>
        /\ (\E i \in 1 .. Len(tiles) : tiles[i].channel \notin channels)
               => verifyResult # "ok"
        /\ (\A i \in 1 .. Len(tiles) : tiles[i].channel \in channels)
               => verifyResult # "raise_channel"

\* The channel error raised for the second tile of a plan whose first tile
\* is in order.
Wit_C11 ==
    /\ verifyResult = "raise_channel"
    /\ Len(tiles) = 2
    /\ tiles[1].channel \in channels
    /\ tiles[2].channel \notin channels

Thm_C13 ==
    LET shared(ops) ==
            \E d \in DOMAIN ops : \E i, j \in 1 .. Len(ops[d]) :
                i # j /\ ops[d][i] = ops[d][j]
    IN  verifyResult # "idle" =>
            /\ (shared(writers) \/ shared(transfers)) => verifyResult # "ok"
            /\ verifyResult = "ok" => ~shared(writers) /\ ~shared(transfers)

\* The transfer error raised although every writer path is distinct.
Wit_C13 ==
    /\ verifyResult = "raise_transfer_path"
    /\ \A d \in DOMAIN writers : ~HasDuplicates(writers[d])
    /\ \E d \in DOMAIN transfers : transfers[d] = <<"p1", "p1">>

\* C14: every step of run() is the next one of the order assign name,
\* propagate name, verify, create directories: the name is assigned first,
\* the propagation gives it to exactly the operations that have the
\* attribute, directories appear only in the last step and only after a
\* verification that returned, and a step that ends in the verification's
\* error leaves the disks as they were.
Thm_C14 ==
    [][ /\ <<runPc, runPc'>> \in
            { <<"assign", "propagate">>, <<"propagate", "verify">>,
              <<"verify", "mkdirs">>, <<"verify", "raised">>,
              <<"mkdirs", "done">> }
        /\ runPc = "assign" => acquisition_name' \in AcquisitionNames
        /\ runPc = "propagate" =>
              \A op \in DOMAIN opName :
                  opName'[op] = IF op[1] = "processes" THEN "no_attribute"
                                ELSE acquisition_name
        /\ runPc = "verify" =>
              (runPc' = "raised" <=> verifyResult' # "ok")
        /\ dirs' # dirs => runPc = "mkdirs" /\ verifyResult = "ok"
        /\ runPc' = "raised" => dirs' = dirs
      ]_vars

\* A run stopped by the verification, with the name assigned and propagated
\* and no directory on the disks.
Wit_C14 ==
    /\ runPc = "raised"
    /\ acquisition_name \in AcquisitionNames
    /\ \E op \in DOMAIN opName : opName[op] = acquisition_name
    /\ verifyResult = "raise_channel"
    /\ dirs = {}

\* Space the plan needs on a drive when every (camera, writer, tile) is
\* counted once: the quantity the claims C15 and C16 name (for the external
\* check, once per transfer that takes the writer's data to the drive).
PlanRequiredGb(drive, mode) ==
    SumSeq([c \in 1 .. Len(disk_cameras) |->
        LET cam == disk_cameras[c]
            targets == IF mode = "local" THEN cam.wdrives ELSE cam.tdrives
            hits == Cardinality({ i \in 1 .. Len(targets) :
                                     DriveOf(targets[i]) = drive })
        IN  IF mode = "local" THEN hits * TilesGb(cam)
            ELSE hits * Len(cam.wdrives) * TilesGb(cam)])

\* C15: the local check has raised exactly when the plan needs more on some
\* drive than the drive has free.
CE_C15 ==
    diskMode = "local" =>
        (diskResult = "raise" <=>
            \E drive \in DOMAIN free :
                PlanRequiredGb(drive, "local") > free[drive])

\* C16: every comparison against a drive's free space that a disk-space
\* check has made compared the plan's requirement on that drive.
CE_C16 ==
    \A i \in 1 .. Len(compared) :
        compared[i].data_size_gb = PlanRequiredGb(compared[i].drive, diskMode)

\* C17: with the codec "none" the estimate does nothing but return 1.0:
\* the producer is either before the call or has returned 1.0, and the
\* camera trigger, the writer's geometry, filename and frame count, the
\* shared buffer, the worker and the camera are as construction left them.
Thm_C17 ==
    CompressionGetter(kind, compression) = "none" =>
        /\ pcP \in {"configure", "returned"}
        /\ pcP = "returned" => compression_ratio = "1.0"
        /\ trigger_mode = "on" /\ initial_trigger = "unbound"
        /\ geometry = NoGeometry /\ filename = << >> /\ frame_count = 0
        /\ mem = [r \in Regions |-> EmptyRegion] /\ write_buf = "A"
        /\ shm_name = "" /\ done_reading
        /\ pcW = "idle" /\ chunk_num = 0 /\ backendLog = << >>
        /\ camera_state = "idle" /\ grabbed = 0

\* The estimate has returned 1.0 for an imaris writer with the codec none.
Wit_C17 ==
    /\ pcP = "returned"
    /\ compression_ratio = "1.0"
    /\ kind = "imaris"
    /\ compression = "eCompressionAlgorithmNone"

\* A color string that is a hex color code: "#" and three or six
\* hexadecimal digits, and nothing else.
WellFormedColor(color) ==
    /\ Len(color) \in {4, 7}
    /\ color[1] = "#"
    /\ \A i \in 2 .. Len(color) : color[i] \in HexDigits

\* The values C18 calls invalid.
InvalidValue(wk, field, value) ==
    CASE field = "compression" -> value \notin DOMAIN COMPRESSIONS(wk)
      [] field = "version" -> value \notin {"v2", "v3"}
      [] field = "multiscale" -> ~IsBool(value)
      [] field = "color" -> ~WellFormedColor(value)
      [] field = "path" -> value \notin ExistingDirectories
      [] OTHER -> FALSE

\* C18: a setter call with an invalid value has raised.
CE_C18 ==
    (lastCall.field # "none"
        /\ InvalidValue(writer_class, lastCall.field, lastCall.value))
    => lastCall.raised

\* C19: before the first prepare(), a setter call leaves every field but
\* its own as it was, and a call that repeats the call before it, with a
\* value the setter stores, leaves the whole writer as it was.
Thm_C19 ==
    [][ (prepares = 0 /\ calls' = calls + 1) =>
            /\ \A g \in DOMAIN fields :
                  g # lastCall'.field => fields'[g] = fields[g]
            /\ (/\ lastCall'.field = lastCall.field
                /\ lastCall'.value = lastCall.value
                /\ ~lastCall'.raised)
               => fields' = fields
      ]_vars

\* The position setter called twice with the same value: the field holds
\* the value in micrometres, once.
Wit_C19 ==
    /\ calls = 2
    /\ prepares = 0
    /\ lastCall.field = "x_pos_mm"
    /\ lastCall.value = 2
    /\ ~lastCall.raised
    /\ fields["x_pos_mm"] = <<2000>>
    /\ fields["y_pos_mm"] = << >>

\* C20: whatever number of prepare() calls was made, at most one Array and
\* at most one Process are live, and they are the ones the writer names.
Thm_C20 ==
    /\ Cardinality(shm_arrays) <= 1
    /\ Cardinality(processes) <= 1
    /\ prepares >= 1 => shm_arrays = {shm_ref}
    /\ processes \subseteq {process_ref}

\* After the second prepare() the only live Array is the second one.
Wit_C20 ==
    /\ prepares = 2
    /\ shm_arrays = {2}
    /\ processes = {2}

\* C21: when the calibration run measures its artifact, the file it
\* measures is the file delete_files() removes, and once the run has ended
\* no artifact is left on disk.
CE_C21 ==
    /\ pcP = "measure" => MeasuredPath = DeletePath
    /\ pcP \in {"done", "raised"} => disk_files = {}

\* C27: once the calibration run has reset the trigger, the camera's
\* trigger mode is the mode it had before the call.
CE_C27 ==
    pcP \in {"measure", "delete", "done", "raised"} => trigger_mode = "on"

\* C22: for every configuration without transfer operations, the external
\* disk-space check raises the ValueError "no transfers configured".
CE_C22 ==
    (/\ diskMode = "external"
     /\ \A c \in 1 .. Len(disk_cameras) : disk_cameras[c].tdrives = << >>)
        => diskResult = "raise_no_transfers"

\* C23: the worker passes through Idle, Prepared, Running, Draining and
\* Finished in that order, Faulted aside: the chunk loop is entered only
\* from Prepared, that is by a start() that follows prepare(); Draining and
\* finalization are entered only when the chunk loop has ended; the imaris
\* worker skips no state (the zarr worker has no wait for its backend and
\* leaves the chunk loop for Finished).
WorkerRank(st) ==
    CASE st = "Idle" -> 0
      [] st = "Prepared" -> 1
      [] st = "Running" -> 2
      [] st = "Draining" -> 3
      [] st = "Finished" -> 4
      [] OTHER -> 5

Thm_C23 ==
    [][LET old == WorkerRank(WorkerState)
           new == WorkerRank(WorkerState')
       IN  /\ \/ new = old
              \/ new = old + 1 /\ new <= 4
              \/ new = 5
              \/ kind = "zarr" /\ old = 2 /\ new = 4
           /\ (old < 3 /\ new \in {3, 4}) => chunk_num >= chunk_total
           /\ (new = 4 /\ old # 4 /\ kind = "imaris") => finalized'
           /\ pcP' = "start_raised" => WorkerState' = "Idle"]_vars

\* the imaris worker has gone through every state and the file is finalized
Wit_C23 ==
    /\ kind = "imaris"
    /\ WorkerState = "Finished"
    /\ finalized
    /\ chunk_num = chunk_total
    /\ chunk_total = 2

\* C24: each iteration of the worker goes: observe done_reading clear,
\* attach to the region shm_name names, pass it to the backend, detach, set
\* done_reading; and the worker attaches to nothing before the producer
\* has published a region name and cleared done_reading.
IterationOrder ==
    { <<"loop", "attach">>, <<"attach", "copy">>, <<"copy", "close">>,
      <<"close", "set">>, <<"set", "loop">> }

InIteration == {"attach", "copy", "close", "set"}

Thm_C24 ==
    [][ /\ (pcW' # pcW /\ (pcW \in InIteration \/ pcW' \in InIteration))
              => \/ <<pcW, pcW'>> \in IterationOrder
                 \/ pcW' = "faulted"
        /\ (pcW = "loop" /\ pcW' = "attach") => ~done_reading
        /\ (attached' # attached /\ attached' # "")
              => /\ pcW = "attach"
                 /\ attached' = shm_name
                 /\ ~done_reading
                 /\ published # << >>
                 /\ published[Len(published)].region = shm_name
                 /\ chunkP >= 1
        /\ Len(backendLog') > Len(backendLog)
              => /\ pcW = "copy"
                 /\ attached = shm_name
                 /\ backendLog'[Len(backendLog')].region = attached
        /\ (pcW = "close" /\ pcW' = "set") => attached' = ""
        /\ (done_reading' /\ ~done_reading)
              => pcW = "set" /\ attached = ""
        /\ (pcW \in InIteration /\ pcW' \in InIteration) => ~done_reading
      ]_vars

\* the worker is attached to the region of the second publication
Wit_C24 ==
    /\ pcW = "copy"
    /\ chunk_num = 1
    /\ attached = shm_name
    /\ Len(published) = 2
    /\ ~done_reading

\* C25: the calibration run (frame count CHUNK_COUNT_PX) grabs exactly 64
\* frames and stores the i-th frame grabbed at slot i of the write buffer,
\* for i = 0 .. 63: each grab fills the lowest empty slot, so that no slot
\* is skipped and none written twice.
CalibrationRun == requested = CHUNK_COUNT_PX

Thm_C25 ==
    /\ [](CalibrationRun /\ pcP = "fill"
            => /\ grabbed = frame_index
               /\ \A i \in Slots :
                     FrameAt(mem[write_buf], i) =
                        IF i < frame_index THEN i + 1 ELSE 0)
    /\ [](CalibrationRun /\ pcP \in {"wait", "toggle"}
            => /\ grabbed = 64
               /\ \A i \in Slots : FrameAt(mem[write_buf], i) = i + 1)
    /\ [](CalibrationRun /\ pcP \in {"handed", "stop", "measure", "delete",
                                     "done", "raised"}
            => grabbed = 64)
    /\ [][CalibrationRun /\ grabbed' # grabbed
            => /\ grabbed' = grabbed + 1
               /\ FrameAt(mem[write_buf], grabbed) = 0
               /\ FrameAt(mem'[write_buf], grabbed) = grabbed'
               /\ \A i \in Slots \ {grabbed} :
                     FrameAt(mem'[write_buf], i) = FrameAt(mem[write_buf], i)
       ]_vars

\* the calibration run has filled its buffer and is about to hand it over
Wit_C25 ==
    /\ CalibrationRun
    /\ pcP = "wait"
    /\ grabbed = 64
    /\ FrameAt(mem[write_buf], 63) = 64

\* C26 as stated: however many threads call the class, the constructor
\* runs at most once and every call returns the same instance.
SameInstanceReturned ==
    \A t, u \in Threads : \A a \in returned[t] : \A b \in returned[u] : a = b

CE_C26 == constructorRuns <= 1 /\ SameInstanceReturned

\* C26 amended: the constructor runs to its end at most once (a
\* constructor call that raises stores nothing, and the next call runs the
\* constructor again); every call that returns returns the one instance
\* stored.
Thm_C26 ==
    /\ constructorOk <= 1
    /\ SameInstanceReturned
    /\ \A t \in Threads : \A a \in returned[t] : instances = << a >>
    /\ \A t \in Threads :
          callPc[t] \in {"check", "construct", "store"} => lock = t

\* three threads have each got the instance, which a second constructor
\* run made after the first had raised
Wit_C26 ==
    /\ \A t \in Threads : returned[t] # {}
    /\ constructorRuns = 2
    /\ constructorOk = 1

\* C28: a local file is removed only when the rsync subprocess of every
\* matching file has exited successfully: none is still running and none
\* has failed at the time of a removal.
CE_C28 ==
    \A f \in DOMAIN deletedWhen : deletedWhen[f] \subseteq {"succeeded"}

\* C29 as stated: in every state the queue holds at most BUFFER_SIZE_FRAMES
\* frames and the frame counter is the number of frames enqueued plus the
\* number dropped; a frame is dropped only when the queue is full.
CE_C29 ==
    /\ [](Len(buffer) <= 8)
    /\ [](frame_counter = enqueued + dropped_frames)
    /\ [][dropped_frames' # dropped_frames => Len(buffer) = 8]_vars

\* C29 amended: the queue holds at most 8 frames; the frame counter is the
\* number of frames enqueued plus the number dropped whenever the generator
\* is between two frames, and one less while a frame has been enqueued or
\* dropped and not yet counted; a frame is dropped only when the size read
\* at the generator's test was 8 (the consumer may have taken frames since).
Thm_C29 ==
    /\ [](Len(buffer) <= 8)
    /\ [](generatorPc # "count"
            => frame_counter = enqueued + dropped_frames)
    /\ [](generatorPc = "count"
            => frame_counter + 1 = enqueued + dropped_frames)
    /\ [][dropped_frames' # dropped_frames
            => /\ dropped_frames' = dropped_frames + 1
               /\ qsize = 8
               /\ Len(buffer) <= 8]_vars

\* a frame has been dropped on a full queue, and the consumer has since
\* taken frames
Wit_C29 ==
    /\ dropped_frames = 1
    /\ enqueued = 9
    /\ frame_counter = 10
    /\ Len(buffer) = 7

\* C30: with a producer that sets new_image only while it is clear, every
\* signalled frame is folded exactly once (the frames folded are the
\* frames signalled, in order); the xy projections written cover
\* consecutive ranges [start, end) that partition 0 .. frame_count, each of
\* z_projection_count frames except possibly the last, and each holds the
\* frames of its range; the worker terminates, after exactly frame_count
\* frames.
FramesFoldedOnce ==
    /\ Len(folded) = mip_frame_index
    /\ \A k \in 1 .. Len(folded) : folded[k] = k - 1
    /\ Len(folded) \in {signalled, signalled - 1}
    /\ (~new_image) => Len(folded) = signalled

RangesConsecutive ==
    /\ \A k \in 1 .. Len(xy_written) :
          /\ xy_written[k].start = IF k = 1 THEN 0 ELSE xy_written[k - 1].end
          /\ xy_written[k].start < xy_written[k].end
          /\ xy_written[k].frames =
                xy_written[k].start .. (xy_written[k].end - 1)
          /\ \/ xy_written[k].end - xy_written[k].start = z_projection_count
             \/ /\ k = Len(xy_written)
                /\ xy_written[k].end = projection_frame_count
                /\ xy_written[k].end - xy_written[k].start < z_projection_count
    /\ mip_start_index =
          IF xy_written = << >> THEN 0 ELSE xy_written[Len(xy_written)].end

ProjectionTerminated ==
    projectionPc = "done"
       => /\ mip_frame_index = projection_frame_count
          /\ Len(folded) = projection_frame_count
          /\ signalled = projection_frame_count
          /\ mip_start_index = projection_frame_count
          /\ mip_xy = {}

Thm_C30 ==
    /\ [](FramesFoldedOnce /\ RangesConsecutive /\ ProjectionTerminated)
    /\ <>(projectionPc = "done")

\* a stack of five frames projected three at a time: ranges [0, 3), [3, 5)
Wit_C30 ==
    /\ projectionPc = "done"
    /\ projection_frame_count = 5
    /\ z_projection_count = 3
    /\ Len(xy_written) = 2
    /\ xy_written[2].frames = {3, 4}

====
